---- MODULE Spec2Model ----
(***************************************************************************)
(* Ledger store of the card manager: the async key-value storage object    *)
(* (storage.addCustomer, updateCustomer, deleteCustomer, addTransaction,   *)
(* addPayment, the reads), the two screens that write to it, the           *)
(* aggregation engine (analytics) and the exports that read it, and the    *)
(* card extraction with its processing screen.                             *)
(*                                                                         *)
(* Every storage method is an async function: it runs in blocks separated  *)
(* by awaits on AsyncStorage.getItem / setItem.  One action of the model   *)
(* is one such block together with the AsyncStorage operation it issues    *)
(* (a read of a whole collection, or a write of a whole collection).  The  *)
(* block that starts a call is merged with the first read the call issues. *)
(*                                                                         *)
(* Collections are stored as JSON blobs.  The values kept here are strings *)
(* and finite integers, which JSON.stringify / JSON.parse reproduce        *)
(* exactly, so a stored collection is the sequence that was written; what  *)
(* else a key may hold is told apart only where the reads are specified.   *)
(* Customers keep the fields id, name, mobile, createdAt, updatedAt (the   *)
(* other contact fields are strings handled exactly like name and mobile); *)
(* transactions keep id, customerId, totalAmount, amountPaid, status, and   *)
(* those created by the transaction form also their products; payments     *)
(* keep id, transactionId, customerId, amount.                             *)
(***************************************************************************)
EXTENDS Integers, Sequences, FiniteSets, TLC

\* Number of ids generateId may hand out in one behaviour.
MaxIds == 3
\* Largest number of customers / transactions / payments stored at once.
MaxCustomers == 2
MaxTransactions == 1
MaxPayments == 2
\* Number of clock ticks in one behaviour.
MaxTime == 1

VARIABLES
    customers,      \* blob under STORAGE_KEYS.CUSTOMERS, as a sequence
    transactions,   \* blob under STORAGE_KEYS.TRANSACTIONS
    payments,       \* blob under STORAGE_KEYS.PAYMENTS
    profile,        \* item under STORAGE_KEYS.PROFILE
    now,            \* the system clock read by new Date()
    idCounter,      \* number of ids generateId has produced
    proc,           \* the async calls in flight: position, arguments, locals
    ui              \* React state of the screens that write to the store;
                    \* where the aggregation engine is applied, the value
                    \* a screen got from it

vars == <<customers, transactions, payments, profile, now, idCounter, proc, ui>>
store == <<customers, transactions, payments>>

\* What AsyncStorage holds under a key: nothing (getItem resolves to null),
\* the empty string, a text that JSON.parse rejects, or the JSON text of a
\* value.
NoItem == [kind |-> "none"]
EmptyItem == [kind |-> "empty"]
CorruptItem == [kind |-> "corrupt"]
JsonItem(value) == [kind |-> "json", value |-> value]

\* Two async invocations may be in flight at once.
Procs == {"a", "b"}
\* The invocation used when calls are issued one after another.
Solo == {"a"}

Statuses == {"paid", "partial", "pending"}

----------------------------------------------------------------------------
(* Pure helpers, one per expression of the storage code.                   *)

\* The ids of a collection's elements.
Ids(seq) == {seq[i].id : i \in 1..Len(seq)}

\* generateId: a fresh opaque id; the n-th id is n.  0 is an id that
\* generateId never returns.
GenerateId(counter) == counter + 1

\* (variant: push instead of unshift)
Unshift_Push(seq, x) == seq \o <<x>>

\* Array.prototype.unshift
Unshift(seq, x) == <<x>> \o seq

\* (variant: a miss reported as the last index, as with a negative index)
FindIndexById_Last(seq, id) ==
    IF \E i \in 1..Len(seq) : seq[i].id = id
    THEN CHOOSE i \in 1..Len(seq) :
            /\ seq[i].id = id
            /\ \A j \in 1..(i - 1) : seq[j].id # id
    ELSE Len(seq)

\* Array.prototype.findIndex((e) => e.id === id); "not found" (-1) is 0 here
\* because sequences are 1-based.
FindIndexById(seq, id) ==
    IF \E i \in 1..Len(seq) : seq[i].id = id
    THEN CHOOSE i \in 1..Len(seq) :
            /\ seq[i].id = id
            /\ \A j \in 1..(i - 1) : seq[j].id # id
    ELSE 0

\* { ...customer, id: generateId(), createdAt: now, updatedAt: now }
NewCustomer(fields, id, t) ==
    [id |-> id, name |-> fields.name, mobile |-> fields.mobile,
     createdAt |-> t, updatedAt |-> t]

\* { ...customers[index], ...updates, updatedAt: now }
MergeCustomer(c, updates, t) ==
    [f \in DOMAIN c \cup DOMAIN updates |->
        IF f = "updatedAt" THEN t
        ELSE IF f \in DOMAIN updates THEN updates[f]
        ELSE c[f]]

\* customers.filter((c) => c.id !== id)
FilterOutId(seq, id) == SelectSeq(seq, LAMBDA c : c.id # id)

\* (variant: the filter compares the element's own id)
FilterOutCustomer_ById(seq, id) == SelectSeq(seq, LAMBDA t : t.id # id)

\* transactions.filter((t) => t.customerId !== id), same for payments
FilterOutCustomer(seq, id) == SelectSeq(seq, LAMBDA t : t.customerId # id)

\* { ...transaction, id: generateId(), createdAt: now }
NewTransaction(fields, id) ==
    [f \in DOMAIN fields \cup {"id"} |-> IF f = "id" THEN id ELSE fields[f]]

\* { ...payment, id: generateId() }
NewPayment(fields, id) ==
    [id |-> id, transactionId |-> fields.transactionId,
     customerId |-> fields.customerId, amount |-> fields.amount]

\* (variant: > in place of >=)
DeriveStatus_Strict(newAmountPaid, totalAmount) ==
    IF newAmountPaid > totalAmount THEN "paid"
    ELSE IF newAmountPaid > 0 THEN "partial"
    ELSE "pending"

\* newAmountPaid >= tx.totalAmount ? "paid" : newAmountPaid > 0 ? "partial" : "pending"
DeriveStatus(newAmountPaid, totalAmount) ==
    IF newAmountPaid >= totalAmount THEN "paid"
    ELSE IF newAmountPaid > 0 THEN "partial"
    ELSE "pending"

\* (variant: the sum capped at totalAmount)
NewAmountPaid_Capped(tx, amount) ==
    IF tx.amountPaid + amount > tx.totalAmount THEN tx.totalAmount
    ELSE tx.amountPaid + amount

\* const newAmountPaid = tx.amountPaid + payment.amount
NewAmountPaid(tx, amount) == tx.amountPaid + amount

\* transactions[txIndex] = { ...tx, amountPaid: newAmountPaid, status: ... }
ApplyPayment(tx, amount) ==
    [tx EXCEPT !.amountPaid = NewAmountPaid(tx, amount),
               !.status = DeriveStatus(NewAmountPaid(tx, amount), tx.totalAmount)]

\* getCustomerTransactions / getCustomerPayments: filter by customerId
GetCustomerTransactions(txs, customerId) ==
    SelectSeq(txs, LAMBDA t : t.customerId = customerId)
GetCustomerPayments(pays, customerId) ==
    SelectSeq(pays, LAMBDA q : q.customerId = customerId)

----------------------------------------------------------------------------
(* Async calls.                                                            *)

(* proc[p] is one async invocation: pc is the block it runs next, op the   *)
(* method, arg its argument, local the collection its last read returned,  *)
(* ret the value it returns (<<>> for null / void, <<v>> for a value; for  *)
(* addPayment it holds newPayment from the moment it is built).  pre is a  *)
(* history field: the three collections as they were when the call began;  *)
(* handler is the screen handler awaiting the call, if any.                *)
IdleProc ==
    [pc |-> "idle", op |-> "none", arg |-> <<>>, local |-> <<>>, ret |-> <<>>,
     pre |-> <<>>, handler |-> "none"]

\* The blocks that issue a write, and where a call stands when that write
\* is rejected (AsyncStorage.setItem rejects, the method throws).
SavePcs ==
    {"addCustomer_save", "updateCustomer_save", "deleteCustomer_saveCustomers",
     "deleteCustomer_saveTransactions", "deleteCustomer_savePayments",
     "addTransaction_save", "addPayment_savePayments", "addPayment_saveTransactions"}
FailedPc(pc) ==
    CASE pc = "addCustomer_save" -> "addCustomer_save_failed"
      [] pc = "updateCustomer_save" -> "updateCustomer_save_failed"
      [] pc = "deleteCustomer_saveCustomers" -> "deleteCustomer_saveCustomers_failed"
      [] pc = "deleteCustomer_saveTransactions" -> "deleteCustomer_saveTransactions_failed"
      [] pc = "deleteCustomer_savePayments" -> "deleteCustomer_savePayments_failed"
      [] pc = "addTransaction_save" -> "addTransaction_save_failed"
      [] pc = "addPayment_savePayments" -> "addPayment_savePayments_failed"
      [] pc = "addPayment_saveTransactions" -> "addPayment_saveTransactions_failed"
FailedPcs == {FailedPc(pc) : pc \in SavePcs}

\* A call is over when it has returned ("done") or thrown.
Settled(p) == proc[p].pc \in {"idle", "done"} \cup FailedPcs
\* An invocation slot is free when its call is settled and no handler is
\* still waiting to resume after it.
Over(p) == Settled(p) /\ proc[p].handler = "none"

\* Calls that have not yet called generateId but will.
At(pc) == {q \in Procs : proc[q].pc = pc}
WillGenerate ==
    At("addCustomer_save") \cup At("addTransaction_save") \cup At("addPayment_savePayments")
CanGenerate == idCounter + Cardinality(WillGenerate) < MaxIds
\* Room left in a collection, counting the calls about to add to it.
Room(seq, pc, max) == Len(seq) + Cardinality(At(pc)) < max

Goto(p, pc, local) ==
    proc' = [proc EXCEPT ![p].pc = pc, ![p].local = local]
Begin(p, op, arg, pc, local) ==
    proc' = [proc EXCEPT ![p] = [pc |-> pc, op |-> op, arg |-> arg,
                                 local |-> local, ret |-> <<>>, pre |-> store,
                                 handler |-> "none"]]
Return(p, ret) ==
    proc' = [proc EXCEPT ![p].pc = "done", ![p].local = <<>>, ![p].ret = ret]

\* Ids a caller can name.  0 is an id generateId never returned; an id that
\* is neither stored nor referenced behaves like 0 in every operation.
CustomerIds ==
    {0} \cup {customers[i].id : i \in 1..Len(customers)}
        \cup {transactions[i].customerId : i \in 1..Len(transactions)}
        \cup {payments[i].customerId : i \in 1..Len(payments)}
TransactionIds ==
    {0} \cup {transactions[i].id : i \in 1..Len(transactions)}
        \cup {payments[i].transactionId : i \in 1..Len(payments)}

\* --- addCustomer ---------------------------------------------------------
AddCustomerCall(p, fields) ==
    /\ Over(p)
    /\ CanGenerate
    /\ Room(customers, "addCustomer_save", MaxCustomers)
    /\ Begin(p, "addCustomer", fields, "addCustomer_save", customers)
    /\ UNCHANGED <<ui, store, now, idCounter, profile>>

AddCustomerSave(p) ==
    /\ proc[p].pc = "addCustomer_save"
    /\ LET newCustomer == NewCustomer(proc[p].arg, GenerateId(idCounter), now)
       IN  /\ customers' = Unshift(proc[p].local, newCustomer)
           /\ Return(p, <<newCustomer>>)
    /\ idCounter' = idCounter + 1
    /\ UNCHANGED <<ui, transactions, payments, now, profile>>

\* --- updateCustomer ------------------------------------------------------
UpdateCustomerCall(p, id, updates) ==
    /\ Over(p)
    /\ IF FindIndexById(customers, id) = 0
       THEN Begin(p, "updateCustomer", [id |-> id, updates |-> updates],
                  "done", <<>>)
       ELSE Begin(p, "updateCustomer", [id |-> id, updates |-> updates],
                  "updateCustomer_save", customers)
    /\ UNCHANGED <<ui, store, now, idCounter, profile>>

UpdateCustomerSave(p) ==
    /\ proc[p].pc = "updateCustomer_save"
    /\ LET local == proc[p].local
           index == FindIndexById(local, proc[p].arg.id)
           merged == MergeCustomer(local[index], proc[p].arg.updates, now)
       IN  /\ customers' = [local EXCEPT ![index] = merged]
           /\ Return(p, <<merged>>)
    /\ UNCHANGED <<ui, transactions, payments, now, idCounter, profile>>

\* --- deleteCustomer ------------------------------------------------------
DeleteCustomerCall(p, id) ==
    /\ Over(p)
    /\ Begin(p, "deleteCustomer", [id |-> id], "deleteCustomer_saveCustomers",
             customers)
    /\ UNCHANGED <<ui, store, now, idCounter, profile>>

DeleteCustomerSaveCustomers(p) ==
    /\ proc[p].pc = "deleteCustomer_saveCustomers"
    /\ customers' = FilterOutId(proc[p].local, proc[p].arg.id)
    /\ Goto(p, "deleteCustomer_getTransactions", <<>>)
    /\ UNCHANGED <<ui, transactions, payments, now, idCounter, profile>>

DeleteCustomerGetTransactions(p) ==
    /\ proc[p].pc = "deleteCustomer_getTransactions"
    /\ Goto(p, "deleteCustomer_saveTransactions", transactions)
    /\ UNCHANGED <<ui, store, now, idCounter, profile>>

DeleteCustomerSaveTransactions(p) ==
    /\ proc[p].pc = "deleteCustomer_saveTransactions"
    /\ transactions' = FilterOutCustomer(proc[p].local, proc[p].arg.id)
    /\ Goto(p, "deleteCustomer_getPayments", <<>>)
    /\ UNCHANGED <<ui, customers, payments, now, idCounter, profile>>

DeleteCustomerGetPayments(p) ==
    /\ proc[p].pc = "deleteCustomer_getPayments"
    /\ Goto(p, "deleteCustomer_savePayments", payments)
    /\ UNCHANGED <<ui, store, now, idCounter, profile>>

DeleteCustomerSavePayments(p) ==
    /\ proc[p].pc = "deleteCustomer_savePayments"
    /\ payments' = FilterOutCustomer(proc[p].local, proc[p].arg.id)
    /\ Return(p, <<>>)
    /\ UNCHANGED <<ui, customers, transactions, now, idCounter, profile>>

\* --- addTransaction ------------------------------------------------------
AddTransactionCall(p, fields) ==
    /\ Over(p)
    /\ CanGenerate
    /\ Room(transactions, "addTransaction_save", MaxTransactions)
    /\ Begin(p, "addTransaction", fields, "addTransaction_save", transactions)
    /\ UNCHANGED <<ui, store, now, idCounter, profile>>

AddTransactionSave(p) ==
    /\ proc[p].pc = "addTransaction_save"
    /\ LET newTransaction == NewTransaction(proc[p].arg, GenerateId(idCounter))
       IN  /\ transactions' = Unshift(proc[p].local, newTransaction)
           /\ Return(p, <<newTransaction>>)
    /\ idCounter' = idCounter + 1
    /\ UNCHANGED <<ui, customers, payments, now, profile>>

\* --- addPayment ----------------------------------------------------------
AddPaymentCall(p, fields) ==
    /\ Over(p)
    /\ CanGenerate
    /\ Room(payments, "addPayment_savePayments", MaxPayments)
    /\ Begin(p, "addPayment", fields, "addPayment_savePayments", payments)
    /\ UNCHANGED <<ui, store, now, idCounter, profile>>

\* (variant: the payments are written after the transactions, not before)
AddPaymentSavePayments_Deferred(p) ==
    /\ proc[p].pc = "addPayment_savePayments"
    /\ proc' = [proc EXCEPT ![p].pc = "addPayment_getTransactions",
                            ![p].local = <<>>,
                            ![p].ret = <<NewPayment(proc[p].arg, GenerateId(idCounter))>>]
    /\ idCounter' = idCounter + 1
    /\ UNCHANGED <<ui, customers, transactions, payments, now, profile>>

AddPaymentSavePayments(p) ==
    /\ proc[p].pc = "addPayment_savePayments"
    /\ LET newPayment == NewPayment(proc[p].arg, GenerateId(idCounter))
       IN  /\ payments' = Unshift(proc[p].local, newPayment)
           /\ proc' = [proc EXCEPT ![p].pc = "addPayment_getTransactions",
                                   ![p].local = <<>>,
                                   ![p].ret = <<newPayment>>]
    /\ idCounter' = idCounter + 1
    /\ UNCHANGED <<ui, customers, transactions, now, profile>>

\* getTransactions resolves; if (txIndex !== -1) the write follows, else the
\* call returns at once.
AddPaymentGetTransactions(p) ==
    /\ proc[p].pc = "addPayment_getTransactions"
    /\ IF FindIndexById(transactions, proc[p].arg.transactionId) = 0
       THEN proc' = [proc EXCEPT ![p].pc = "done"]
       ELSE Goto(p, "addPayment_saveTransactions", transactions)
    /\ UNCHANGED <<ui, store, now, idCounter, profile>>

AddPaymentSaveTransactions(p) ==
    /\ proc[p].pc = "addPayment_saveTransactions"
    /\ LET local == proc[p].local
           txIndex == FindIndexById(local, proc[p].arg.transactionId)
       IN  transactions' =
               [local EXCEPT ![txIndex] = ApplyPayment(local[txIndex], proc[p].arg.amount)]
    /\ proc' = [proc EXCEPT ![p].pc = "done", ![p].local = <<>>]
    /\ UNCHANGED <<ui, customers, payments, now, idCounter, profile>>

\* --- environment ---------------------------------------------------------
\* A write is rejected: the collection keeps its old blob and the method
\* throws out of the await, so none of its later blocks run.
SaveFails(p) ==
    /\ proc[p].pc \in SavePcs
    /\ proc' = [proc EXCEPT ![p].pc = FailedPc(proc[p].pc)]
    /\ UNCHANGED <<ui, store, now, idCounter, profile>>

Tick ==
    /\ now < MaxTime
    /\ now' = now + 1
    /\ UNCHANGED <<ui, store, idCounter, proc, profile>>

----------------------------------------------------------------------------
(* Screens.                                                                *)

\* list: CustomerDetailScreen's transactions state; transaction: the local
\* copy of TransactionDetailScreen (<<>> while the screen is not mounted);
\* focusLoad: its focus effect has called loadData, which has not resolved.
InitialUi ==
    [list |-> <<>>, transaction |-> <<>>, focusLoad |-> FALSE,
     showPaymentForm |-> FALSE, isSubmitting |-> FALSE, isSaving |-> FALSE]

\* parseFloat(text) || 0 on the texts typed here: "" parses to NaN and "0"
\* to 0, both falsy, so both give 0.
ParseFloatOrZero(text) ==
    CASE text = "" -> 0
      [] text = "0" -> 0
      [] text = "1" -> 1
      [] text = "2" -> 2
      [] text = "-1" -> -1

\* parseFloat(text) on the texts a row that passed the validProducts filter
\* can hold here (the empty text, which parses to NaN, does not pass it).
ParseFloat(text) ==
    CASE text = "0" -> 0
      [] text = "1" -> 1
      [] text = "2" -> 2
      [] text = "-1" -> -1

\* validProducts.map((p) => ({ name: p.name.trim(), quantity: parseFloat(p.quantity),
\*   unitPrice: parseFloat(p.unitPrice), total: quantity * unitPrice }))
ProductItems(validProducts) ==
    [i \in 1..Len(validProducts) |->
        [name |-> validProducts[i].name,
         quantity |-> ParseFloat(validProducts[i].quantity),
         unitPrice |-> ParseFloat(validProducts[i].unitPrice),
         total |-> ParseFloat(validProducts[i].quantity)
                     * ParseFloat(validProducts[i].unitPrice)]]

\* calculateTotal: products.reduce((sum, p) => sum + qty * price, 0)
RECURSIVE CalculateTotal(_)
CalculateTotal(products) ==
    IF products = <<>> THEN 0
    ELSE ParseFloatOrZero(Head(products).quantity) * ParseFloatOrZero(Head(products).unitPrice)
         + CalculateTotal(Tail(products))

\* products.filter((p) => p.name.trim() && p.quantity && p.unitPrice)
ValidProducts(products) ==
    SelectSeq(products, LAMBDA r : r.name # "" /\ r.quantity # "" /\ r.unitPrice # "")

\* paid >= totalAmount ? "paid" : paid > 0 ? "partial" : "pending"
HandleSaveStatus(paid, totalAmount) ==
    IF paid >= totalAmount THEN "paid"
    ELSE IF paid > 0 THEN "partial"
    ELSE "pending"

\* const pending = transaction.totalAmount - transaction.amountPaid
PendingAmount(transaction) == transaction.totalAmount - transaction.amountPaid

\* --- AddTransactionScreen.handleSave ---------------------------------------
\* The Save button is disabled while isSaving.  A rejected form (no valid
\* product, or paid > totalAmount) shows an alert and changes nothing.
HandleSave(p, customerId, products, amountPaidText) ==
    /\ Over(p)
    /\ ~ui.isSaving
    /\ CanGenerate
    /\ Room(transactions, "addTransaction_save", MaxTransactions)
    /\ ValidProducts(products) # <<>>
    /\ LET totalAmount == CalculateTotal(products)
           paid == ParseFloatOrZero(amountPaidText)
       IN  /\ ~(paid > totalAmount)
           /\ proc' = [proc EXCEPT ![p] =
                [pc |-> "addTransaction_save", op |-> "addTransaction",
                 arg |-> [customerId |-> customerId,
                          products |-> ProductItems(ValidProducts(products)),
                          totalAmount |-> totalAmount,
                          amountPaid |-> paid,
                          status |-> HandleSaveStatus(paid, totalAmount)],
                 local |-> transactions, ret |-> <<>>, pre |-> store,
                 handler |-> "handleSave"]]
    /\ ui' = [ui EXCEPT !.isSaving = TRUE]
    /\ UNCHANGED <<store, now, idCounter, profile>>

\* addTransaction returned (navigation.goBack()) or threw (alert); finally
\* setIsSaving(false).
HandleSaveFinish(p) ==
    /\ Settled(p)
    /\ proc[p].handler = "handleSave"
    /\ proc' = [proc EXCEPT ![p].handler = "none"]
    /\ ui' = [ui EXCEPT !.isSaving = FALSE]
    /\ UNCHANGED <<store, now, idCounter, profile>>

\* --- CustomerDetailScreen ------------------------------------------------
\* loadData: if the customer is found, the list is that customer's
\* transactions as stored now.
CustomerDetailLoadData(customerId) ==
    /\ FindIndexById(customers, customerId) # 0
    /\ ui' = [ui EXCEPT !.list = GetCustomerTransactions(transactions, customerId)]
    /\ UNCHANGED <<store, now, idCounter, proc, profile>>

\* A transaction card is pressed: TransactionDetail mounts with the list's
\* copy of the transaction as route parameter, and its focus effect calls
\* loadData.
OpenTransactionDetail(i) ==
    /\ ui.transaction = <<>>
    /\ \A p \in Procs : proc[p].handler # "handleAddPayment"
    /\ i \in 1..Len(ui.list)
    /\ ui' = [ui EXCEPT !.transaction = <<ui.list[i]>>, !.focusLoad = TRUE,
                        !.showPaymentForm = FALSE, !.isSubmitting = FALSE]
    /\ UNCHANGED <<store, now, idCounter, proc, profile>>

\* --- TransactionDetailScreen ---------------------------------------------
\* loadData resolves: setTransaction(updatedTx) if the transaction is stored.
Reloaded(transaction) ==
    IF FindIndexById(transactions, transaction.id) # 0
    THEN transactions[FindIndexById(transactions, transaction.id)]
    ELSE transaction

TransactionDetailLoadData ==
    /\ ui.transaction # <<>>
    /\ ui.focusLoad
    /\ ui' = [ui EXCEPT !.transaction = <<Reloaded(ui.transaction[1])>>,
                        !.focusLoad = FALSE]
    /\ UNCHANGED <<store, now, idCounter, proc, profile>>

\* The "Add Payment" / "Cancel" toggle, rendered while pendingAmount > 0.
TogglePaymentForm ==
    /\ ui.transaction # <<>>
    /\ PendingAmount(ui.transaction[1]) > 0
    /\ ui' = [ui EXCEPT !.showPaymentForm = ~ui.showPaymentForm]
    /\ UNCHANGED <<store, now, idCounter, proc, profile>>

\* (variant: the payment is filed under the customer whose detail list is shown)
PaymentFields_FromList(transaction, amount) ==
    [transactionId |-> transaction.id,
     customerId |-> IF ui.list # <<>> THEN ui.list[1].customerId ELSE 0,
     amount |-> amount]

\* { transactionId: transaction.id, customerId: transaction.customerId, amount, ... }
PaymentFields(transaction, amount) ==
    [transactionId |-> transaction.id,
     customerId |-> transaction.customerId,
     amount |-> amount]

\* handleAddPayment: the submit button is disabled while isSubmitting.  An
\* amount that is NaN, 0 or negative, or larger than the pending amount of
\* the local copy, shows an alert and changes nothing.
HandleAddPayment(p, paymentAmount) ==
    /\ Over(p)
    /\ ui.transaction # <<>>
    /\ ui.showPaymentForm
    /\ ~ui.isSubmitting
    /\ CanGenerate
    /\ Room(payments, "addPayment_savePayments", MaxPayments)
    /\ LET amount == ParseFloatOrZero(paymentAmount)
           transaction == ui.transaction[1]
       IN  /\ ~(amount <= 0)
           /\ ~(amount > PendingAmount(transaction))
           /\ proc' = [proc EXCEPT ![p] =
                [pc |-> "addPayment_savePayments", op |-> "addPayment",
                 arg |-> PaymentFields(transaction, amount),
                 local |-> payments, ret |-> <<>>, pre |-> store,
                 handler |-> "handleAddPayment"]]
    /\ ui' = [ui EXCEPT !.isSubmitting = TRUE]
    /\ UNCHANGED <<store, now, idCounter, profile>>

\* addPayment returned: setShowPaymentForm(false); await loadData(); or it
\* threw: alert.  finally setIsSubmitting(false).
HandleAddPaymentFinish(p) ==
    /\ Settled(p)
    /\ proc[p].handler = "handleAddPayment"
    /\ proc' = [proc EXCEPT ![p].handler = "none"]
    /\ ui' = IF proc[p].pc = "done"
             THEN [ui EXCEPT !.showPaymentForm = FALSE,
                             !.transaction = <<Reloaded(ui.transaction[1])>>,
                             !.isSubmitting = FALSE]
             ELSE [ui EXCEPT !.isSubmitting = FALSE]
    /\ UNCHANGED <<store, now, idCounter, profile>>

----------------------------------------------------------------------------
(* Aggregation engine (analytics).  Synchronous pure functions of the      *)
(* customers, the transactions and the clock.                              *)

(* An instant is a whole number of days in a calendar whose months all     *)
(* have 30 days; Date objects compare by their instant.  A transaction's   *)
(* date is stored as an ISO string and parsed back by new Date(t.date),    *)
(* which reproduces the instant.  An omitted optional argument is <<>>, a  *)
(* provided one <<v>>; null is <<>> likewise.                              *)

\* new Date(year, month, day): months are 0-based and a month outside 0..11
\* carries into the year.
MakeDate(year, month, day) == (year * 12 + month) * 30 + (day - 1)
\* Date.prototype.getMonth / getFullYear
GetMonth(date) == (date \div 30) % 12
GetFullYear(date) == date \div 360

\* toLocaleDateString("en-US", { month: "short" })
MonthNames ==
    <<"Jan", "Feb", "Mar", "Apr", "May", "Jun",
      "Jul", "Aug", "Sep", "Oct", "Nov", "Dec">>
MonthName(date) == MonthNames[GetMonth(date) + 1]

(* Amounts are JavaScript numbers, that is IEEE 754 doubles.  The amounts   *)
(* of the model are whole numbers: up to 2^53 in magnitude every whole      *)
(* number is a double and sums and differences are exact; from 2^53 on the  *)
(* doubles are 2, 4, 8, ... apart and a sum is rounded to the nearest one,  *)
(* a tie going to the one with the even significand.  A number is written   *)
(* here as hi * TwoTo53 + lo with lo small against TwoTo53, where TwoTo53    *)
(* stands for 2^53: it is the numeral the model writes 2^53 with, chosen    *)
(* far above every lo that occurs, so that hi and lo can be read off and    *)
(* the order of the numerals is the order of the numbers.                   *)
TwoTo53 == 1000000
\* The largest power of two that is at most h, for 1 <= h < 8.
PowerOfTwoBelow(h) == IF h >= 4 THEN 4 ELSE IF h >= 2 THEN 2 ELSE 1
\* The exact value n >= 0 rounded to a double.
RoundMagnitude(n) ==
    LET hi == (n + TwoTo53 \div 2) \div TwoTo53
        lo == n - hi * TwoTo53
        h == IF lo < 0 THEN hi - 1 ELSE hi
        spacing == IF h = 0 THEN 1 ELSE 2 * PowerOfTwoBelow(h)
        down == lo - (lo % spacing)
        up == down + spacing
        nearest == IF 2 * (lo - down) < spacing THEN down
                   ELSE IF 2 * (lo - down) > spacing THEN up
                   ELSE IF down % (2 * spacing) = 0 THEN down ELSE up
    IN  hi * TwoTo53 + nearest
RoundDouble(n) == IF n < 0 THEN 0 - RoundMagnitude(0 - n) ELSE RoundMagnitude(n)
\* a + b and a - b on numbers
Plus(a, b) == RoundDouble(a + b)
Minus(a, b) == RoundDouble(a - b)

\* reduce((sum, t) => sum + t.totalAmount, 0), and the same for amountPaid
RECURSIVE SumTotalAmount(_)
SumTotalAmount(txs) ==
    IF txs = <<>> THEN 0
    ELSE Plus(SumTotalAmount(SubSeq(txs, 1, Len(txs) - 1)), txs[Len(txs)].totalAmount)
RECURSIVE SumAmountPaid(_)
SumAmountPaid(txs) ==
    IF txs = <<>> THEN 0
    ELSE Plus(SumAmountPaid(SubSeq(txs, 1, Len(txs) - 1)), txs[Len(txs)].amountPaid)

\* A Map is the sequence of its entries in insertion order: set() on a new
\* key appends an entry, set() on a present key replaces the value in place.
MapIndex(map, key) ==
    IF \E i \in 1..Len(map) : map[i].key = key
    THEN CHOOSE i \in 1..Len(map) : map[i].key = key
    ELSE 0
MapGet(map, key, default) ==
    IF MapIndex(map, key) = 0 THEN default ELSE map[MapIndex(map, key)].value
MapSet(map, key, value) ==
    IF MapIndex(map, key) = 0 THEN Append(map, [key |-> key, value |-> value])
    ELSE [map EXCEPT ![MapIndex(map, key)].value = value]

\* customers.find((c) => c.id === id) || null
FindCustomer(custs, id) ==
    IF FindIndexById(custs, id) = 0 THEN <<>>
    ELSE <<custs[FindIndexById(custs, id)]>>

\* (variant: the year is not compared)
InMonth_AnyYear(txs, month, year) ==
    SelectSeq(txs, LAMBDA t : GetMonth(t.date) = month)

\* transactions.filter: txDate.getMonth() === month && txDate.getFullYear() === year
InMonth(txs, month, year) ==
    SelectSeq(txs, LAMBDA t : GetMonth(t.date) = month /\ GetFullYear(t.date) = year)

\* Array.prototype.sort((a, b) => b[field] - a[field]): descending by the
\* field, and stable, so elements of equal value keep their order.
StableSortDescending(seq, field) ==
    LET Position(i) ==
            1 + Cardinality({j \in 1..Len(seq) : seq[j][field] > seq[i][field]})
              + Cardinality({j \in 1..(i - 1) : seq[j][field] = seq[i][field]})
    IN  [k \in 1..Len(seq) |-> seq[CHOOSE i \in 1..Len(seq) : Position(i) = k]]

\* Array.prototype.slice(0, n), for n >= 0
Slice(seq, n) == SubSeq(seq, 1, IF Len(seq) < n THEN Len(seq) ELSE n)

\* --- getCustomerStats ------------------------------------------------------
\* (variant: a negative balance reported as 0)
AmountPending_Clamped(totalPurchased, amountPaid) ==
    IF totalPurchased - amountPaid < 0 THEN 0 ELSE totalPurchased - amountPaid

\* const amountPending = totalPurchased - amountPaid
AmountPending(totalPurchased, amountPaid) == Minus(totalPurchased, amountPaid)

\* customerTransactions.forEach((t) => t.products.forEach((p) =>
\*   productCounts.set(p.name, (productCounts.get(p.name) || 0) + p.quantity)))
RECURSIVE AllProducts(_)
AllProducts(txs) ==
    IF txs = <<>> THEN <<>> ELSE Head(txs).products \o AllProducts(Tail(txs))
RECURSIVE ProductCounts(_)
ProductCounts(products) ==
    IF products = <<>> THEN <<>>
    ELSE LET counted == ProductCounts(SubSeq(products, 1, Len(products) - 1))
             p == products[Len(products)]
         IN  MapSet(counted, p.name, Plus(MapGet(counted, p.name, 0), p.quantity))

GetCustomerStats(customerId, txs) ==
    LET customerTransactions == SelectSeq(txs, LAMBDA t : t.customerId = customerId)
        totalPurchased == SumTotalAmount(customerTransactions)
        amountPaid == SumAmountPaid(customerTransactions)
        productCounts == ProductCounts(AllProducts(customerTransactions))
        topProducts == [i \in 1..Len(productCounts) |->
                           [name |-> productCounts[i].key,
                            quantity |-> productCounts[i].value]]
    IN  [totalPurchased |-> totalPurchased,
         amountPaid |-> amountPaid,
         amountPending |-> AmountPending(totalPurchased, amountPaid),
         transactionCount |-> Len(customerTransactions),
         topProducts |-> Slice(StableSortDescending(topProducts, "quantity"), 5)]

\* A function of the engine is applied to the stored collections; ui holds
\* the function, its arguments and the value it returned.  The functions
\* keep no state, so a behaviour applies one function once.
CallGetCustomerStats(customerId) ==
    /\ ui.fn = "none"
    /\ ui' = [fn |-> "getCustomerStats", args |-> <<customerId>>,
              result |-> GetCustomerStats(customerId, transactions)]
    /\ UNCHANGED <<store, now, idCounter, proc, profile>>

\* --- getMonthlyRankings ---------------------------------------------------
\* monthTransactions.forEach: customerStats.set(t.customerId, { totalAmount:
\*   current.totalAmount + t.totalAmount, transactionCount: current + 1 })
RECURSIVE CustomerStatsMap(_)
CustomerStatsMap(txs) ==
    IF txs = <<>> THEN <<>>
    ELSE LET counted == CustomerStatsMap(SubSeq(txs, 1, Len(txs) - 1))
             t == txs[Len(txs)]
             current == MapGet(counted, t.customerId,
                               [totalAmount |-> 0, transactionCount |-> 0])
         IN  MapSet(counted, t.customerId,
                    [totalAmount |-> Plus(current.totalAmount, t.totalAmount),
                     transactionCount |-> current.transactionCount + 1])

\* (variant: the entries are left in the order of the Map)
SortRankings_Unsorted(rankings) == rankings

\* rankings.sort((a, b) => b.totalAmount - a.totalAmount)
SortRankings(rankings) == StableSortDescending(rankings, "totalAmount")

\* (variant: the entry of a customer that is not found is kept, without customer)
ListedEntries_All(custs, customerStats) == customerStats

\* customerStats.forEach: if (customer) rankings.push(...)
ListedEntries(custs, customerStats) ==
    SelectSeq(customerStats, LAMBDA e : FindCustomer(custs, e.key) # <<>>)

\* month and year are <<>> when omitted (month ?? now.getMonth()).
GetMonthlyRankings(custs, txs, month, year, t) ==
    LET targetMonth == IF month = <<>> THEN GetMonth(t) ELSE month[1]
        targetYear == IF year = <<>> THEN GetFullYear(t) ELSE year[1]
        monthTransactions == InMonth(txs, targetMonth, targetYear)
        customerStats == CustomerStatsMap(monthTransactions)
        listed == ListedEntries(custs, customerStats)
        rankings == [i \in 1..Len(listed) |->
                        [customer |-> FindCustomer(custs, listed[i].key),
                         rank |-> 0,
                         totalAmount |-> listed[i].value.totalAmount,
                         transactionCount |-> listed[i].value.transactionCount]]
        sorted == SortRankings(rankings)
    IN  [i \in 1..Len(sorted) |-> [sorted[i] EXCEPT !.rank = i]]

\* A getMonthlyRankings that sorts the transactions it is given, in place.
CallGetMonthlyRankings_SortingInput(month, year) ==
    /\ ui.fn = "none"
    /\ ui' = [fn |-> "getMonthlyRankings", args |-> <<month, year>>,
              result |-> GetMonthlyRankings(customers, transactions, month, year, now)]
    /\ transactions' = StableSortDescending(transactions, "totalAmount")
    /\ UNCHANGED <<customers, payments, now, idCounter, proc, profile>>

CallGetMonthlyRankings(month, year) ==
    /\ ui.fn = "none"
    /\ ui' = [fn |-> "getMonthlyRankings", args |-> <<month, year>>,
              result |-> GetMonthlyRankings(customers, transactions, month, year, now)]
    /\ UNCHANGED <<store, now, idCounter, proc, profile>>

\* --- getDashboardStats ----------------------------------------------------
\* thisMonthTransactions.forEach: customerTotals.set(t.customerId,
\*   (customerTotals.get(t.customerId) || 0) + t.totalAmount)
RECURSIVE CustomerTotals(_)
CustomerTotals(txs) ==
    IF txs = <<>> THEN <<>>
    ELSE LET counted == CustomerTotals(SubSeq(txs, 1, Len(txs) - 1))
             t == txs[Len(txs)]
         IN  MapSet(counted, t.customerId,
                    Plus(MapGet(counted, t.customerId, 0), t.totalAmount))

\* let topCustomerId = "", topAmount = 0; customerTotals.forEach: if (amount >
\* topAmount) { topAmount = amount; topCustomerId = customerId }.  The empty
\* string is the id 0, which no customer has.
RECURSIVE TopEntry(_)
TopEntry(customerTotals) ==
    IF customerTotals = <<>> THEN [customerId |-> 0, amount |-> 0]
    ELSE LET top == TopEntry(SubSeq(customerTotals, 1, Len(customerTotals) - 1))
             e == customerTotals[Len(customerTotals)]
         IN  IF e.value > top.amount
             THEN [customerId |-> e.key, amount |-> e.value]
             ELSE top

\* reduce((sum, t) => sum + (t.totalAmount - t.amountPaid), 0)
RECURSIVE PendingCollections(_)
PendingCollections(txs) ==
    IF txs = <<>> THEN 0
    ELSE Plus(PendingCollections(SubSeq(txs, 1, Len(txs) - 1)),
              Minus(txs[Len(txs)].totalAmount, txs[Len(txs)].amountPaid))

GetDashboardStats(custs, txs, t) ==
    LET thisMonthTransactions == InMonth(txs, GetMonth(t), GetFullYear(t))
        top == TopEntry(CustomerTotals(thisMonthTransactions))
    IN  [totalCustomers |-> Len(custs),
         thisMonthRevenue |-> SumTotalAmount(thisMonthTransactions),
         pendingCollections |-> PendingCollections(txs),
         topCustomer |-> [customer |-> FindCustomer(custs, top.customerId),
                          amount |-> top.amount]]

CallGetDashboardStats ==
    /\ ui.fn = "none"
    /\ ui' = [fn |-> "getDashboardStats", args |-> <<>>,
              result |-> GetDashboardStats(customers, transactions, now)]
    /\ UNCHANGED <<store, now, idCounter, proc, profile>>

\* --- getRevenueChartData --------------------------------------------------
\* (variant: a month outside 0..11 wraps around within the same year)
FirstOfMonth_SameYear(year, month) == MakeDate(year, month % 12, 1)

\* new Date(now.getFullYear(), now.getMonth() - i, 1)
FirstOfMonth(year, month) == MakeDate(year, month, 1)

\* !startDate || !endDate || (txDate >= startDate && txDate <= endDate)
InRange(txDate, startDate, endDate) ==
    \/ startDate = <<>>
    \/ endDate = <<>>
    \/ (txDate >= startDate[1] /\ txDate <= endDate[1])

\* One pass of the loop, for i months before the current one.
MonthRevenue(txs, i, startDate, endDate, t) ==
    LET date == FirstOfMonth(GetFullYear(t), GetMonth(t) - i)
    IN  SumTotalAmount(SelectSeq(txs, LAMBDA x :
            /\ InRange(x.date, startDate, endDate)
            /\ GetMonth(x.date) = GetMonth(date)
            /\ GetFullYear(x.date) = GetFullYear(date)))

\* for (let i = months - 1; i >= 0; i--): the k-th entry pushed is the one
\* for i = months - k.  months is 6 when omitted.
GetRevenueChartData(txs, months, startDate, endDate, t) ==
    LET n == IF months = <<>> THEN 6 ELSE months[1]
    IN  [labels |-> [k \in 1..n |->
                        MonthName(FirstOfMonth(GetFullYear(t), GetMonth(t) - (n - k)))],
         data |-> [k \in 1..n |-> MonthRevenue(txs, n - k, startDate, endDate, t)]]

CallGetRevenueChartData(months, startDate, endDate) ==
    /\ ui.fn = "none"
    /\ ui' = [fn |-> "getRevenueChartData", args |-> <<months, startDate, endDate>>,
              result |-> GetRevenueChartData(transactions, months, startDate, endDate, now)]
    /\ UNCHANGED <<store, now, idCounter, proc, profile>>

\* --- getPaymentStatusData -------------------------------------------------
\* (variant: a transaction dated exactly at a bound is left out)
DateFiltered_Exclusive(txs, startDate, endDate) ==
    SelectSeq(txs, LAMBDA t :
        /\ ~(startDate # <<>> /\ t.date <= startDate[1])
        /\ ~(endDate # <<>> /\ t.date >= endDate[1]))

\* transactions.filter: if (startDate && txDate < startDate) return false;
\* if (endDate && txDate > endDate) return false; return true
DateFiltered(txs, startDate, endDate) ==
    SelectSeq(txs, LAMBDA t :
        /\ ~(startDate # <<>> /\ t.date < startDate[1])
        /\ ~(endDate # <<>> /\ t.date > endDate[1]))

GetPaymentStatusData(txs, startDate, endDate) ==
    LET filtered == DateFiltered(txs, startDate, endDate)
    IN  [collected |-> SumAmountPaid(filtered),
         pending |-> PendingCollections(filtered)]

CallGetPaymentStatusData(startDate, endDate) ==
    /\ ui.fn = "none"
    /\ ui' = [fn |-> "getPaymentStatusData", args |-> <<startDate, endDate>>,
              result |-> GetPaymentStatusData(transactions, startDate, endDate)]
    /\ UNCHANGED <<store, now, idCounter, proc, profile>>

\* --- getTopProducts -------------------------------------------------------
\* filtered.forEach((t) => t.products.forEach((p) => productStats.set(p.name,
\*   { quantity: current.quantity + p.quantity, revenue: current.revenue + p.total })))
RECURSIVE ProductStats(_)
ProductStats(products) ==
    IF products = <<>> THEN <<>>
    ELSE LET counted == ProductStats(SubSeq(products, 1, Len(products) - 1))
             p == products[Len(products)]
             current == MapGet(counted, p.name, [quantity |-> 0, revenue |-> 0])
         IN  MapSet(counted, p.name,
                    [quantity |-> Plus(current.quantity, p.quantity),
                     revenue |-> Plus(current.revenue, p.total)])

\* (variant: ordered by quantity)
SortProducts_ByQuantity(products) == StableSortDescending(products, "quantity")

\* products.sort((a, b) => b.revenue - a.revenue)
SortProducts(products) == StableSortDescending(products, "revenue")

\* limit is 5 when omitted.
GetTopProducts(txs, limit, startDate, endDate) ==
    LET filtered == DateFiltered(txs, startDate, endDate)
        productStats == ProductStats(AllProducts(filtered))
        products == [i \in 1..Len(productStats) |->
                        [name |-> productStats[i].key,
                         quantity |-> productStats[i].value.quantity,
                         revenue |-> productStats[i].value.revenue]]
    IN  Slice(SortProducts(products), IF limit = <<>> THEN 5 ELSE limit[1])

CallGetTopProducts(limit, startDate, endDate) ==
    /\ ui.fn = "none"
    /\ ui' = [fn |-> "getTopProducts", args |-> <<limit, startDate, endDate>>,
              result |-> GetTopProducts(transactions, limit, startDate, endDate)]
    /\ UNCHANGED <<store, now, idCounter, proc, profile>>

\* --- export: generateReportSummary, exportCustomersToCSV -------------------
(* The report and the CSV are texts into which numbers are printed with     *)
(* their shortest decimal form, which differs for different numbers; the    *)
(* model keeps the numbers printed.  The report's heading and its           *)
(* Collection Rate line (a quotient) are left out.                          *)
CountStatus(txs, status) == Len(SelectSeq(txs, LAMBDA t : t.status = status))

GenerateReportSummary(custs, txs) ==
    LET totalRevenue == SumTotalAmount(txs)
        totalCollected == SumAmountPaid(txs)
        pendingAmount == Minus(totalRevenue, totalCollected)
    IN  [totalCustomers |-> Len(custs),
         totalRevenue |-> totalRevenue,
         totalCollected |-> totalCollected,
         pendingAmount |-> pendingAmount,
         totalTransactions |-> Len(txs),
         paid |-> CountStatus(txs, "paid"),
         partial |-> CountStatus(txs, "partial"),
         pending |-> CountStatus(txs, "pending")]

CallGenerateReportSummary ==
    /\ ui.fn = "none"
    /\ ui' = [fn |-> "generateReportSummary", args |-> <<>>,
              result |-> GenerateReportSummary(customers, transactions)]
    /\ UNCHANGED <<store, now, idCounter, proc, profile>>

\* customers.map((customer) => [..., totalPurchased, amountPaid, amountPending, ...])
CustomerRows(custs, txs) ==
    [i \in 1..Len(custs) |->
        LET customerTx == SelectSeq(txs, LAMBDA t : t.customerId = custs[i].id)
            totalPurchased == SumTotalAmount(customerTx)
            amountPaid == SumAmountPaid(customerTx)
        IN  [name |-> custs[i].name, mobile |-> custs[i].mobile,
             totalPurchased |-> totalPurchased,
             amountPaid |-> amountPaid,
             amountPending |-> Minus(totalPurchased, amountPaid)]]

\* exportCustomersToCSV builds the rows, then writes and shares the file; if
\* either of the two fails it throws "Failed to export customers to CSV".
ExportCustomersToCSV(written) ==
    /\ ui.fn = "none"
    /\ ui' = [fn |-> "exportCustomersToCSV", args |-> <<>>,
              result |-> [rows |-> CustomerRows(customers, transactions),
                          thrown |-> ~written]]
    /\ UNCHANGED <<store, now, idCounter, proc, profile>>

\* --- the aggregation functions called again --------------------------------
\* The screens call the aggregation functions afresh each time they load
\* their data.  Aggregate is the function named fn applied to args.
Aggregate(fn, args, custs, txs, t) ==
    CASE fn = "getCustomerStats" -> GetCustomerStats(args[1], txs)
      [] fn = "getMonthlyRankings" -> GetMonthlyRankings(custs, txs, args[1], args[2], t)
      [] fn = "getDashboardStats" -> GetDashboardStats(custs, txs, t)
      [] fn = "getRevenueChartData" -> GetRevenueChartData(txs, args[1], args[2], args[3], t)
      [] fn = "getPaymentStatusData" -> GetPaymentStatusData(txs, args[1], args[2])
      [] fn = "getTopProducts" -> GetTopProducts(txs, args[1], args[2], args[3])

\* The same call a second time, the clock not having moved.
CallAgain ==
    /\ ui.fn # "none"
    /\ DOMAIN ui = {"fn", "args", "result"}
    /\ ui' = [fn |-> ui.fn, args |-> ui.args,
              result |-> Aggregate(ui.fn, ui.args, customers, transactions, now),
              again |-> TRUE]
    /\ UNCHANGED <<store, now, idCounter, proc, profile>>

\* --- storage reads: getCustomers, getTransactions, getPayments, getProfile --
\* { name: "", businessName: "", currency: "INR" }
DefaultProfile == [name |-> "", businessName |-> "", currency |-> "INR"]

\* The try block: const data = await AsyncStorage.getItem(key);
\* return data ? JSON.parse(data) : fallback.  The block throws when the
\* read is rejected and when JSON.parse rejects the text.
TryRead(item, readFails, fallback) ==
    IF readFails THEN [thrown |-> TRUE]
    ELSE IF item.kind \in {"none", "empty"} THEN [thrown |-> FALSE, value |-> fallback]
    ELSE IF item.kind = "corrupt" THEN [thrown |-> TRUE]
    ELSE [thrown |-> FALSE, value |-> item.value]

\* (variant: no catch clause, the exception leaves the function)
ReadOrFallback_NoCatch(item, readFails, fallback) == TryRead(item, readFails, fallback)

\* try { ... } catch { return fallback; }
ReadOrFallback(item, readFails, fallback) ==
    IF TryRead(item, readFails, fallback).thrown
    THEN [thrown |-> FALSE, value |-> fallback]
    ELSE TryRead(item, readFails, fallback)

GetCustomers(readFails) ==
    /\ ui.fn = "none"
    /\ ui' = [fn |-> "getCustomers", args |-> <<>>, readFails |-> readFails,
              result |-> ReadOrFallback(customers, readFails, <<>>)]
    /\ UNCHANGED <<store, profile, now, idCounter, proc>>

GetTransactions(readFails) ==
    /\ ui.fn = "none"
    /\ ui' = [fn |-> "getTransactions", args |-> <<>>, readFails |-> readFails,
              result |-> ReadOrFallback(transactions, readFails, <<>>)]
    /\ UNCHANGED <<store, profile, now, idCounter, proc>>

GetPayments(readFails) ==
    /\ ui.fn = "none"
    /\ ui' = [fn |-> "getPayments", args |-> <<>>, readFails |-> readFails,
              result |-> ReadOrFallback(payments, readFails, <<>>)]
    /\ UNCHANGED <<store, profile, now, idCounter, proc>>

GetProfile(readFails) ==
    /\ ui.fn = "none"
    /\ ui' = [fn |-> "getProfile", args |-> <<>>, readFails |-> readFails,
              result |-> ReadOrFallback(profile, readFails, DefaultProfile)]
    /\ UNCHANGED <<store, profile, now, idCounter, proc>>

\* --- extractCardData -------------------------------------------------------
(* JSON values as JavaScript sees them after JSON.parse, with their type.   *)
(* A parsed object is given by what reading each of its properties yields:  *)
(* the value, or undefined for a property it does not have.                 *)
Str(s) == [type |-> "string", text |-> s]
Num(n) == [type |-> "number", number |-> n]
Bool(b) == [type |-> "boolean", truth |-> b]
Null == [type |-> "null"]
Undefined == [type |-> "undefined"]

CardFields == {"name", "businessName", "mobile", "email", "address", "businessType"}

\* JavaScript truthiness
Truthy(v) ==
    CASE v.type = "string" -> v.text # ""
      [] v.type = "number" -> v.number # 0
      [] v.type = "boolean" -> v.truth
      [] v.type \in {"null", "undefined"} -> FALSE

\* parsed.name || ""
OrEmpty(v) == IF Truthy(v) THEN v ELSE Str("")

\* { name: "", businessName: "", mobile: "", email: "", address: "", businessType: "" }
EmptyCardData == [f \in CardFields |-> Str("")]

\* What the completion request comes to: it is rejected; it resolves to a
\* response without a choices array; or to a response with choices, the
\* content of the first being null, or a text.  A text is given by what
\* content.match(/\{[\s\S]*\}/) and JSON.parse make of it: no match, a
\* match that is not JSON, or a match that is the JSON of an object.
Rejected == [settled |-> "rejected"]
NoChoicesArray == [settled |-> "resolved", choices |-> "undefined"]
NoChoice == [settled |-> "resolved", choices |-> "array", first |-> [kind |-> "undefined"]]
Choice(content) == [settled |-> "resolved", choices |-> "array", first |-> content]
NullContent == [kind |-> "null"]
EmptyText == [kind |-> "text", text |-> "empty"]
TextWithoutObject == [kind |-> "text", text |-> "noObject"]
MalformedObject == [kind |-> "text", text |-> "malformed"]
ObjectText(object) == [kind |-> "text", text |-> "object", object |-> object]
\* the text "{}"
EmptyObjectText == ObjectText([f \in CardFields |-> Undefined])

\* response.choices[0]?.message?.content || "{}"
Content(response) ==
    IF response.first.kind \in {"undefined", "null"} \/ response.first = EmptyText
    THEN EmptyObjectText
    ELSE response.first

\* The try block of extractCardData.
TryExtract(response) ==
    IF response.settled = "rejected" THEN [thrown |-> TRUE]
    ELSE IF response.choices = "undefined" THEN [thrown |-> TRUE]
    ELSE LET content == Content(response)
         IN  IF content.text = "noObject"
             THEN [thrown |-> FALSE, value |-> EmptyCardData]
             ELSE IF content.text = "malformed" THEN [thrown |-> TRUE]
             ELSE [thrown |-> FALSE,
                   value |-> [f \in CardFields |-> OrEmpty(content.object[f])]]

\* try { ... } catch (error) { console.error(...); return { name: "", ... } }
ExtractCardData(response) ==
    IF TryExtract(response).thrown
    THEN [thrown |-> FALSE, value |-> EmptyCardData]
    ELSE TryExtract(response)

CallExtractCardData(base64Image, response) ==
    /\ ui.fn = "none"
    /\ ui' = [fn |-> "extractCardData", args |-> <<base64Image>>,
              response |-> response, result |-> ExtractCardData(response)]
    /\ UNCHANGED <<store, profile, now, idCounter, proc>>

\* --- AIProcessingScreen ----------------------------------------------------
\* route.params of the screen, useState("Analyzing card..."), processCard
\* not yet run, no call of navigation.replace made.
AIProcessingScreen(imageUri, imageBase64) ==
    [screen |-> "AIProcessing", imageUri |-> imageUri, imageBase64 |-> imageBase64,
     status |-> "Analyzing card...", pc |-> "mounted", extractedData |-> <<>>,
     replaced |-> <<>>]

\* (variant: the base64 text passed as the uri)
ConfirmDetailsParams_Base64(extractedData, imageUri, imageBase64) ==
    [extractedData |-> extractedData, imageUri |-> imageBase64]

\* { extractedData, imageUri }
ConfirmDetailsParams(extractedData, imageUri, imageBase64) ==
    [extractedData |-> extractedData, imageUri |-> imageUri]

\* navigation.replace("ConfirmDetails", params)
Replace(screen, params) ==
    [screen EXCEPT !.screen = "ConfirmDetails",
                   !.pc = "done",
                   !.replaced = Append(@, [name |-> "ConfirmDetails", params |-> params])]

\* The effect runs processCard: setStatus("Analyzing card..."), then the
\* wait of 1000 ms.
ProcessCardStart ==
    /\ ui.pc = "mounted"
    /\ ui' = [ui EXCEPT !.status = "Analyzing card...", !.pc = "waiting1000"]
    /\ UNCHANGED <<store, profile, now, idCounter, proc>>

\* The timer fires: setStatus("Extracting details..."), extractCardData is
\* called and sends its request.
ProcessCardExtract ==
    /\ ui.pc = "waiting1000"
    /\ ui' = [ui EXCEPT !.status = "Extracting details...", !.pc = "extracting"]
    /\ UNCHANGED <<store, profile, now, idCounter, proc>>

\* The request settles and extractCardData returns (or throws, to the
\* catch clause of processCard): setStatus("Complete!"), then the wait of
\* 500 ms.
ProcessCardExtracted(response) ==
    /\ ui.pc = "extracting"
    /\ LET extracted == ExtractCardData(response)
       IN  ui' = IF extracted.thrown
                 THEN Replace(ui, ConfirmDetailsParams(EmptyCardData, ui.imageUri,
                                                       ui.imageBase64))
                 ELSE [ui EXCEPT !.status = "Complete!", !.pc = "waiting500",
                                 !.extractedData = extracted.value]
    /\ UNCHANGED <<store, profile, now, idCounter, proc>>

\* The timer fires: navigation.replace("ConfirmDetails", { extractedData, imageUri }).
ProcessCardNavigate ==
    /\ ui.pc = "waiting500"
    /\ ui' = Replace(ui, ConfirmDetailsParams(ui.extractedData, ui.imageUri,
                                              ui.imageBase64))
    /\ UNCHANGED <<store, profile, now, idCounter, proc>>

----------------------------------------------------------------------------
(* Inputs.                                                                 *)

CustomerInputs == {[name |-> "A", mobile |-> "1"]}

\* Partial<Customer>: any subset of the fields, here at most one of them.
UpdateInputs ==
    {<<>>} \cup {[name |-> "B"]}
    \cup {[id |-> i] : i \in CustomerIds}
\* ... including the timestamps.
TimedUpdateInputs == UpdateInputs \cup {[createdAt |-> MaxTime], [updatedAt |-> 0]}

\* Store-level callers: any customer id, one amount.
TransactionInputs ==
    [customerId : CustomerIds, totalAmount : {2},
     amountPaid : {0}, status : {"pending"}]

PaymentInputs ==
    [transactionId : TransactionIds, customerId : CustomerIds, amount : {1}]

\* Ledger callers: one customer id, several amounts and supplied statuses.
LedgerTransactionInputs ==
    [customerId : {0}, totalAmount : {-1, 0, 2},
     amountPaid : {-1, 0}, status : {"pending", "paid"}]

\* What the user types into the transaction and payment forms.
CompleteRows == [name : {"P"}, quantity : {"1", "2", "-1"}, unitPrice : {"0", "1"}]
EmptyRow == [name |-> "", quantity |-> "", unitPrice |-> ""]
UnnamedRow == [name |-> "", quantity |-> "2", unitPrice |-> "1"]
ProductForms ==
    {<<EmptyRow>>} \cup {<<r>> : r \in CompleteRows}
                   \cup {<<r, UnnamedRow>> : r \in CompleteRows}
AmountTexts == {"", "0", "1", "2", "-1"}

\* Customers saved in an earlier session (their ids are not ids generated in
\* this one).
SavedCustomers ==
    << [id |-> -1, name |-> "A", mobile |-> "1", createdAt |-> 0, updatedAt |-> 0],
       [id |-> -2, name |-> "A", mobile |-> "1", createdAt |-> 0, updatedAt |-> 0] >>

LedgerPaymentInputs ==
    [transactionId : TransactionIds, customerId : {0}, amount : {1, 2}]

----------------------------------------------------------------------------
Init ==
    /\ customers = <<>>
    /\ transactions = <<>>
    /\ payments = <<>>
    /\ profile = NoItem
    /\ now = 0
    /\ idCounter = 0
    /\ proc = [p \in Procs |-> IdleProc]
    /\ ui = InitialUi

\* Calls issued one after another, each run to completion.  No branch of
\* the store code reads a timestamp, so the clock stands still here; it
\* runs in SpecCustomers.
Next ==
    \E p \in Solo :
        \/ \E fields \in CustomerInputs : AddCustomerCall(p, fields)
        \/ AddCustomerSave(p)
        \/ \E id \in CustomerIds, updates \in UpdateInputs : UpdateCustomerCall(p, id, updates)
        \/ UpdateCustomerSave(p)
        \/ \E id \in CustomerIds : DeleteCustomerCall(p, id)
        \/ DeleteCustomerSaveCustomers(p)
        \/ DeleteCustomerGetTransactions(p)
        \/ DeleteCustomerSaveTransactions(p)
        \/ DeleteCustomerGetPayments(p)
        \/ DeleteCustomerSavePayments(p)
        \/ \E fields \in TransactionInputs : AddTransactionCall(p, fields)
        \/ AddTransactionSave(p)
        \/ \E fields \in PaymentInputs : AddPaymentCall(p, fields)
        \/ AddPaymentSavePayments(p)
        \/ AddPaymentGetTransactions(p)
        \/ AddPaymentSaveTransactions(p)

Spec == Init /\ [][Next]_vars

\* The ledger operations alone, issued one after another.
NextLedger ==
    \E p \in Solo :
        \/ \E fields \in LedgerTransactionInputs : AddTransactionCall(p, fields)
        \/ AddTransactionSave(p)
        \/ \E fields \in LedgerPaymentInputs : AddPaymentCall(p, fields)
        \/ AddPaymentSavePayments(p)
        \/ AddPaymentGetTransactions(p)
        \/ AddPaymentSaveTransactions(p)

SpecLedger == Init /\ [][NextLedger]_vars

\* The ledger operations, issued one after another, where a write may fail.
NextFail ==
    \E p \in Solo :
        \/ \E fields \in LedgerTransactionInputs : AddTransactionCall(p, fields)
        \/ AddTransactionSave(p)
        \/ \E fields \in LedgerPaymentInputs : AddPaymentCall(p, fields)
        \/ AddPaymentSavePayments(p)
        \/ AddPaymentGetTransactions(p)
        \/ AddPaymentSaveTransactions(p)
        \/ SaveFails(p)

SpecFail == Init /\ [][NextFail]_vars

\* The screens: transactions are created by AddTransactionScreen and
\* payments recorded by TransactionDetailScreen only; handlers may overlap at
\* their awaits.
InitUI ==
    /\ customers = SavedCustomers
    /\ transactions = <<>>
    /\ payments = <<>>
    /\ profile = NoItem
    /\ now = 0
    /\ idCounter = 0
    /\ proc = [p \in Procs |-> IdleProc]
    /\ ui = InitialUi

NextUI ==
    \/ \E customerId \in Ids(customers) : CustomerDetailLoadData(customerId)
    \/ \E i \in 1..MaxTransactions : OpenTransactionDetail(i)
    \/ TransactionDetailLoadData
    \/ TogglePaymentForm
    \/ \E p \in Procs :
        \/ \E customerId \in Ids(customers), products \in ProductForms,
              amountPaidText \in AmountTexts :
                HandleSave(p, customerId, products, amountPaidText)
        \/ AddTransactionSave(p)
        \/ HandleSaveFinish(p)
        \/ \E paymentAmount \in AmountTexts : HandleAddPayment(p, paymentAmount)
        \/ AddPaymentSavePayments(p)
        \/ AddPaymentGetTransactions(p)
        \/ AddPaymentSaveTransactions(p)
        \/ HandleAddPaymentFinish(p)

SpecUI == InitUI /\ [][NextUI]_vars

\* The screens again, with one way of filling the transaction form: the
\* transactions differ in their customer only, the payments in their amount.
PlainForms == {<<[name |-> "P", quantity |-> "2", unitPrice |-> "1"]>>}
PlainAmountTexts == {"", "1", "2"}

NextPayments ==
    \/ \E customerId \in Ids(customers) : CustomerDetailLoadData(customerId)
    \/ \E i \in 1..MaxTransactions : OpenTransactionDetail(i)
    \/ TransactionDetailLoadData
    \/ TogglePaymentForm
    \/ \E p \in Procs :
        \/ \E customerId \in Ids(customers), products \in PlainForms :
                HandleSave(p, customerId, products, "")
        \/ AddTransactionSave(p)
        \/ HandleSaveFinish(p)
        \/ \E paymentAmount \in PlainAmountTexts : HandleAddPayment(p, paymentAmount)
        \/ AddPaymentSavePayments(p)
        \/ AddPaymentGetTransactions(p)
        \/ AddPaymentSaveTransactions(p)
        \/ HandleAddPaymentFinish(p)

SpecPayments == InitUI /\ [][NextPayments]_vars

\* The aggregation engine applied to given collections.  The lists handed
\* to it have at most MaxListed elements.
MaxListed == 3
SeqsUpTo(S, n) == UNION {[1..k -> S] : k \in 0..n}
NothingApplied == [fn |-> "none", args |-> <<>>, result |-> <<>>]

\* Transactions of two customers with the amounts 500 and 1000 purchased
\* and 200 and 1000 paid, with or without a product.
StatsProducts ==
    {<<>>, <<[name |-> "P", quantity |-> 1, unitPrice |-> 500, total |-> 500]>>}
StatsTransactions ==
    [customerId : {1, 2}, totalAmount : {500, 1000}, amountPaid : {200, 1000},
     products : StatsProducts, date : {MakeDate(2026, 0, 1)}]

InitCustomerStats ==
    /\ customers = <<>>
    /\ transactions \in SeqsUpTo(StatsTransactions, MaxListed)
    /\ payments = <<>>
    /\ profile = NoItem
    /\ now = MakeDate(2026, 0, 1)
    /\ idCounter = 0
    /\ proc = [p \in Procs |-> IdleProc]
    /\ ui = NothingApplied

NextCustomerStats == \E customerId \in {1, 2} : CallGetCustomerStats(customerId)

SpecCustomerStats == InitCustomerStats /\ [][NextCustomerStats]_vars

\* The clock reads 5 January 2026.  Transactions are dated then, 20 days
\* earlier (15 December 2025), or a year earlier (5 January 2025).
Today == MakeDate(2026, 0, 5)
TwentyDaysAgo == Today - 20
AYearAgo == MakeDate(2025, 0, 5)
RecentDates == {Today, TwentyDaysAgo, AYearAgo}

ListedCustomer(id) ==
    [id |-> id, name |-> "A", mobile |-> "1", createdAt |-> 0, updatedAt |-> 0]

\* getMonthlyRankings: three customers, or two of them (the transactions of
\* the third then name no customer); totals 1 and 2.
RankingsCustomers ==
    {<<ListedCustomer(1), ListedCustomer(2), ListedCustomer(3)>>,
     <<ListedCustomer(3), ListedCustomer(1)>>}
RankingsTransactions ==
    [customerId : {1, 2, 3}, totalAmount : {1, 2}, amountPaid : {0},
     products : {<<>>}, date : RecentDates]
\* (month, year) as passed: both omitted, or both given.
RankingsPeriods == {<<<<>>, <<>>>>, <<<<0>>, <<2025>>>>, <<<<11>>, <<2025>>>>}

InitRankings ==
    /\ customers \in RankingsCustomers
    /\ transactions \in SeqsUpTo(RankingsTransactions, MaxListed)
    /\ payments = <<>>
    /\ profile = NoItem
    /\ now = Today
    /\ idCounter = 0
    /\ proc = [p \in Procs |-> IdleProc]
    /\ ui = NothingApplied

NextRankings == \E period \in RankingsPeriods : CallGetMonthlyRankings(period[1], period[2])

SpecRankings == InitRankings /\ [][NextRankings]_vars

\* getDashboardStats: two customers in either order, or the first alone;
\* totals 0, 1 and 2.
DashboardCustomers ==
    {<<ListedCustomer(1)>>, <<ListedCustomer(1), ListedCustomer(2)>>,
     <<ListedCustomer(2), ListedCustomer(1)>>}
DashboardTransactions ==
    [customerId : {1, 2}, totalAmount : {0, 1, 2}, amountPaid : {0},
     products : {<<>>}, date : RecentDates]

InitDashboard ==
    /\ customers \in DashboardCustomers
    /\ transactions \in SeqsUpTo(DashboardTransactions, MaxListed)
    /\ payments = <<>>
    /\ profile = NoItem
    /\ now = Today
    /\ idCounter = 0
    /\ proc = [p \in Procs |-> IdleProc]
    /\ ui = NothingApplied

NextDashboard == CallGetDashboardStats

SpecDashboard == InitDashboard /\ [][NextDashboard]_vars

\* getRevenueChartData: transactions dated this month, last month, three
\* months ago and a year ago; charts of up to MaxMonths months, or of the
\* default length; a range from or to the 10th or the 20th of last month.
MaxMonths == 3
ThreeMonthsAgo == MakeDate(2025, 9, 20)
ChartTransactions ==
    [customerId : {1}, totalAmount : {1, 2}, amountPaid : {0},
     products : {<<>>}, date : RecentDates \cup {ThreeMonthsAgo}]
ChartMonths == {<<>>} \cup {<<n>> : n \in 0..MaxMonths}
ChartRangeEnds == {<<>>, <<MakeDate(2025, 11, 10)>>, <<MakeDate(2025, 11, 20)>>}

InitChart ==
    /\ customers = <<>>
    /\ transactions \in SeqsUpTo(ChartTransactions, MaxListed)
    /\ payments = <<>>
    /\ profile = NoItem
    /\ now = Today
    /\ idCounter = 0
    /\ proc = [p \in Procs |-> IdleProc]
    /\ ui = NothingApplied

NextChart ==
    \E months \in ChartMonths, startDate \in ChartRangeEnds, endDate \in ChartRangeEnds :
        CallGetRevenueChartData(months, startDate, endDate)

SpecChart == InitChart /\ [][NextChart]_vars

\* getPaymentStatusData: totals 1 and 2 with 0 or 3 paid; a range from or to
\* the very instants the transactions are dated at.
StatusTransactions ==
    [customerId : {1}, totalAmount : {1, 2}, amountPaid : {0, 3},
     products : {<<>>}, date : RecentDates]
StatusRangeEnds == {<<>>, <<TwentyDaysAgo>>, <<Today>>}

InitPaymentStatus ==
    /\ customers = <<>>
    /\ transactions \in SeqsUpTo(StatusTransactions, MaxListed)
    /\ payments = <<>>
    /\ profile = NoItem
    /\ now = Today
    /\ idCounter = 0
    /\ proc = [p \in Procs |-> IdleProc]
    /\ ui = NothingApplied

NextPaymentStatus ==
    \E startDate \in StatusRangeEnds, endDate \in StatusRangeEnds :
        CallGetPaymentStatusData(startDate, endDate)

SpecPaymentStatus == InitPaymentStatus /\ [][NextPaymentStatus]_vars

\* getTopProducts: transactions of this month and of a year ago, with no
\* product, one, or two; a limit of up to MaxLimit, or the default one.
MaxLimit == 2
SoldProduct(name, quantity, unitPrice) ==
    [name |-> name, quantity |-> quantity, unitPrice |-> unitPrice,
     total |-> quantity * unitPrice]
SoldProducts ==
    {<<>>, <<SoldProduct("A", 3, 10)>>, <<SoldProduct("A", 2, 10)>>,
     <<SoldProduct("B", 1, 50)>>, <<SoldProduct("C", 5, 10)>>,
     <<SoldProduct("B", 1, 50), SoldProduct("A", 2, 10)>>}
TopProductsTransactions ==
    [customerId : {1}, totalAmount : {1}, amountPaid : {0},
     products : SoldProducts, date : {Today, AYearAgo}]
TopProductsLimits == {<<>>} \cup {<<n>> : n \in 0..MaxLimit}

InitTopProducts ==
    /\ customers = <<>>
    /\ transactions \in SeqsUpTo(TopProductsTransactions, MaxListed)
    /\ payments = <<>>
    /\ profile = NoItem
    /\ now = Today
    /\ idCounter = 0
    /\ proc = [p \in Procs |-> IdleProc]
    /\ ui = NothingApplied

NextTopProducts ==
    \E limit \in TopProductsLimits, startDate \in {<<>>, <<TwentyDaysAgo>>},
       endDate \in {<<>>, <<TwentyDaysAgo>>} :
        CallGetTopProducts(limit, startDate, endDate)

SpecTopProducts == InitTopProducts /\ [][NextTopProducts]_vars

\* Reports: one or two customers; transactions of 1, 2 or 2^53, unpaid,
\* partly paid or paid, with the matching status.
ReportAmounts ==
    {<<1, 0, "pending">>, <<1, 1, "paid">>, <<2, 1, "partial">>,
     <<TwoTo53, 0, "pending">>, <<TwoTo53, 1, "partial">>,
     <<TwoTo53, TwoTo53, "paid">>}
ReportTransactions ==
    {[customerId |-> c, totalAmount |-> a[1], amountPaid |-> a[2],
      status |-> a[3], products |-> <<>>, date |-> Today] :
        c \in {1, 2}, a \in ReportAmounts}

InitReport ==
    /\ customers \in {<<ListedCustomer(1)>>, <<ListedCustomer(1), ListedCustomer(2)>>}
    /\ transactions \in SeqsUpTo(ReportTransactions, MaxListed)
    /\ payments = <<>>
    /\ profile = NoItem
    /\ now = Today
    /\ idCounter = 0
    /\ proc = [p \in Procs |-> IdleProc]
    /\ ui = NothingApplied

NextReport ==
    \/ CallGenerateReportSummary
    \/ \E written \in BOOLEAN : ExportCustomersToCSV(written)

SpecReport == InitReport /\ [][NextReport]_vars

\* All six aggregation functions on the same collections, each called and
\* then called again: one or two customers, transactions of 1 or 2 dated
\* today or 20 days earlier, each selling one product.
AggregationCustomers == {<<ListedCustomer(1)>>, <<ListedCustomer(2), ListedCustomer(1)>>}
AggregationTransactions ==
    [customerId : {1, 2}, totalAmount : {1, 2}, amountPaid : {0},
     products : {<<SoldProduct("A", 1, 1)>>}, date : {Today, TwentyDaysAgo}]

InitAggregation ==
    /\ customers \in AggregationCustomers
    /\ transactions \in SeqsUpTo(AggregationTransactions, MaxListed)
    /\ payments = <<>>
    /\ profile = NoItem
    /\ now = Today
    /\ idCounter = 0
    /\ proc = [p \in Procs |-> IdleProc]
    /\ ui = NothingApplied

NextAggregation ==
    \/ \E customerId \in {1, 2} : CallGetCustomerStats(customerId)
    \/ \E period \in {<<<<>>, <<>>>>, <<<<11>>, <<2025>>>>} :
          CallGetMonthlyRankings(period[1], period[2])
    \/ CallGetDashboardStats
    \/ \E months \in {<<>>, <<2>>} : CallGetRevenueChartData(months, <<>>, <<>>)
    \/ \E endDate \in {<<>>, <<TwentyDaysAgo>>} : CallGetPaymentStatusData(<<>>, endDate)
    \/ \E limit \in {<<>>, <<1>>} : CallGetTopProducts(limit, <<>>, <<>>)
    \/ CallAgain

SpecAggregation == InitAggregation /\ [][NextAggregation]_vars

\* The reads of the store, each key holding nothing, the empty string, a
\* text that is not JSON, or the JSON of a value the application saved.
ItemsOf(values) == {NoItem, EmptyItem, CorruptItem} \cup {JsonItem(v) : v \in values}
SavedProfile == [name |-> "N", businessName |-> "B", currency |-> "USD"]

InitReads ==
    /\ customers \in ItemsOf({<<>>, <<ListedCustomer(1)>>})
    /\ transactions \in
          ItemsOf({<<[id |-> 1, customerId |-> 1, totalAmount |-> 1,
                      amountPaid |-> 0, status |-> "pending"]>>})
    /\ payments \in
          ItemsOf({<<[id |-> 2, transactionId |-> 1, customerId |-> 1, amount |-> 1]>>})
    /\ profile \in ItemsOf({SavedProfile})
    /\ now = Today
    /\ idCounter = 0
    /\ proc = [p \in Procs |-> IdleProc]
    /\ ui = NothingApplied

NextReads ==
    \E readFails \in BOOLEAN :
        \/ GetCustomers(readFails)
        \/ GetTransactions(readFails)
        \/ GetPayments(readFails)
        \/ GetProfile(readFails)

SpecReads == InitReads /\ [][NextReads]_vars

\* extractCardData on every kind of outcome of the request.  The objects
\* returned carry, as name and as mobile, a string, the empty string, a
\* number, zero, null, true, or nothing, and the other four fields or not.
CardValues == {Undefined, Str("A"), Str(""), Num(7), Num(0), Null, Bool(TRUE)}
CardObjects ==
    [name : CardValues, mobile : CardValues,
     businessName : {Undefined, Str("B")}, email : {Undefined, Str("B")},
     address : {Undefined, Str("B")}, businessType : {Undefined, Str("B")}]
Responses ==
    {Rejected, NoChoicesArray, NoChoice, Choice(NullContent), Choice(EmptyText),
     Choice(TextWithoutObject), Choice(MalformedObject)}
        \cup {Choice(ObjectText(o)) : o \in CardObjects}

InitExtraction ==
    /\ customers = <<>>
    /\ transactions = <<>>
    /\ payments = <<>>
    /\ profile = NoItem
    /\ now = Today
    /\ idCounter = 0
    /\ proc = [p \in Procs |-> IdleProc]
    /\ ui = NothingApplied

NextExtraction == \E response \in Responses : CallExtractCardData("QQ==", response)

SpecExtraction == InitExtraction /\ [][NextExtraction]_vars

\* AIProcessingScreen from its mounting on.  The effect runs, timers fire
\* and the request settles: the event loop runs every callback that is due,
\* and the client gives a request up after its timeout.
ProcessingResponses ==
    {Rejected, NoChoicesArray, Choice(NullContent), Choice(TextWithoutObject),
     Choice(MalformedObject)}
        \cup {Choice(ObjectText(o)) :
                o \in [name : {Undefined, Str("A"), Num(7)}, mobile : {Undefined, Str("1")},
                       businessName : {Undefined, Str("B")}, email : {Undefined, Str("e")},
                       address : {Undefined}, businessType : {Undefined}]}

InitProcessing ==
    /\ customers = <<>>
    /\ transactions = <<>>
    /\ payments = <<>>
    /\ profile = NoItem
    /\ now = Today
    /\ idCounter = 0
    /\ proc = [p \in Procs |-> IdleProc]
    /\ ui \in {AIProcessingScreen(uri, base64) :
                 uri \in {"file://a.jpg", "file://b.jpg"}, base64 \in {"QQ==", "Qg=="}}

NextProcessing ==
    \/ ProcessCardStart
    \/ ProcessCardExtract
    \/ \E response \in ProcessingResponses : ProcessCardExtracted(response)
    \/ ProcessCardNavigate

SpecProcessing ==
    /\ InitProcessing
    /\ [][NextProcessing]_vars
    /\ WF_vars(ProcessCardStart)
    /\ WF_vars(ProcessCardExtract)
    /\ WF_vars(\E response \in ProcessingResponses : ProcessCardExtracted(response))
    /\ WF_vars(ProcessCardNavigate)

\* Two addPayment calls on the one stored transaction, each issued once,
\* their blocks running in any order.
OpenTransactions ==
    {[id |-> -1, customerId |-> -1, totalAmount |-> total, amountPaid |-> paid,
      status |-> DeriveStatus(paid, total)] : total \in {2, 3, 4}, paid \in {0, 1}}
InterleavedPaymentInputs == [transactionId : {-1}, customerId : {-1}, amount : {1, 2}]

InitInterleaved ==
    /\ customers = <<SavedCustomers[1]>>
    /\ transactions \in {<<t>> : t \in OpenTransactions}
    /\ payments = <<>>
    /\ profile = NoItem
    /\ now = 0
    /\ idCounter = 0
    /\ proc = [p \in Procs |-> IdleProc]
    /\ ui = InitialUi

\* The one call of an invocation slot.
AddPaymentOnce(p, fields) ==
    /\ proc[p].pc = "idle"
    /\ AddPaymentCall(p, fields)

NextInterleaved ==
    \E p \in Procs :
        \/ \E fields \in InterleavedPaymentInputs : AddPaymentOnce(p, fields)
        \/ AddPaymentSavePayments(p)
        \/ AddPaymentGetTransactions(p)
        \/ AddPaymentSaveTransactions(p)

SpecInterleaved == InitInterleaved /\ [][NextInterleaved]_vars

\* The customer operations alone, with a running clock.
NextCustomers ==
    \/ Tick
    \/ \E p \in Solo :
        \/ \E fields \in CustomerInputs : AddCustomerCall(p, fields)
        \/ AddCustomerSave(p)
        \/ \E id \in CustomerIds, updates \in TimedUpdateInputs : UpdateCustomerCall(p, id, updates)
        \/ UpdateCustomerSave(p)

SpecCustomers == Init /\ [][NextCustomers]_vars

----------------------------------------------------------------------------
(* Properties.                                                             *)

Stored(seq, id) == {seq[i] : i \in {j \in 1..Len(seq) : seq[j].id = id}}
Returned(p, op) == proc[p].op = op /\ proc[p].pc = "done"

RECURSIVE SumPaymentsFor(_, _)
SumPaymentsFor(pays, transactionId) ==
    IF pays = <<>> THEN 0
    ELSE (IF Head(pays).transactionId = transactionId THEN Head(pays).amount ELSE 0)
         + SumPaymentsFor(Tail(pays), transactionId)

\* The three-way rule of the data model.
StatusRule(t) ==
    /\ t.status = "paid" <=> t.amountPaid >= t.totalAmount
    /\ t.status = "pending" <=> t.amountPaid <= 0
    /\ t.status = "partial" <=> (t.amountPaid < t.totalAmount /\ t.amountPaid > 0)

\* C1: when an addPayment call has run to completion on a stored
\* transaction with totalAmount >= 0 whose amountPaid was >= 0 before the
\* call (as it is after any number of earlier payments on an initial
\* amountPaid >= 0), the stored transaction has status "paid" iff amountPaid
\* >= totalAmount, "pending" iff amountPaid <= 0, and "partial" otherwise.
C1_StatusAfterPayments ==
    \A p \in Procs :
        Returned(p, "addPayment") =>
            \A t \in Stored(proc[p].pre[2], proc[p].arg.transactionId) :
                (t.totalAmount >= 0 /\ t.amountPaid >= 0) =>
                    /\ Stored(transactions, t.id) # {}
                    /\ \A u \in Stored(transactions, t.id) : StatusRule(u)

\* Two payments have been applied to one transaction, the second one
\* completing it.
C1_Witness ==
    /\ Returned("a", "addPayment")
    /\ Len(payments) = 2
    /\ \E t \in Stored(transactions, proc["a"].arg.transactionId) :
        /\ t.totalAmount = 2 /\ t.amountPaid = 2 /\ t.status = "paid"
        /\ SumPaymentsFor(payments, t.id) = 2

\* C2: the block of addPayment that writes the transactions sets the
\* referenced transaction's amountPaid to its prior amountPaid plus the
\* payment's amount, whatever the amount, and marks it "paid" when that sum
\* reaches totalAmount.
C2_AmountPaidIsSum ==
    [][\A p \in Procs :
        (proc[p].pc = "addPayment_saveTransactions" /\ proc'[p].pc = "done") =>
            \A t \in Stored(proc[p].pre[2], proc[p].arg.transactionId) :
                \E u \in Stored(transactions', t.id) :
                    /\ u.amountPaid = t.amountPaid + proc[p].arg.amount
                    /\ u.totalAmount = t.totalAmount
                    /\ (u.amountPaid >= u.totalAmount => u.status = "paid")]_vars

\* A payment larger than the pending balance has been accepted.
C2_Witness ==
    /\ Returned("a", "addPayment")
    /\ \E t \in Stored(proc["a"].pre[2], proc["a"].arg.transactionId) :
        /\ t.totalAmount = 2 /\ t.amountPaid = 1 /\ proc["a"].arg.amount = 2
        /\ \E u \in Stored(transactions, t.id) :
              u.amountPaid = 3 /\ u.status = "paid"

\* C6: when addPayment stops at the write of the transactions, after the
\* write of the payments succeeded, the new payment is stored (nothing rolls
\* it back), the transactions are as they were before the call, and the sum
\* of the payments recorded for the referenced transaction has grown by the
\* payment's amount while its amountPaid has not.
C6_PaymentWithoutBalanceUpdate ==
    \A p \in Procs :
        proc[p].pc = "addPayment_saveTransactions_failed" =>
            /\ payments # <<>>
            /\ Head(payments).transactionId = proc[p].arg.transactionId
            /\ Head(payments).amount = proc[p].arg.amount
            /\ Tail(payments) = proc[p].pre[3]
            /\ transactions = proc[p].pre[2]
            /\ \E t \in Stored(transactions, proc[p].arg.transactionId) :
                  SumPaymentsFor(payments, t.id) - t.amountPaid
                      = SumPaymentsFor(proc[p].pre[3], t.id) - t.amountPaid
                        + proc[p].arg.amount
            /\ proc[p].arg.amount > 0

\* The write of the transactions failed for a payment on a transaction that
\* had nothing paid: the payment is stored, amountPaid is still 0.
C6_Witness ==
    /\ proc["a"].pc = "addPayment_saveTransactions_failed"
    /\ \E t \in Stored(transactions, proc["a"].arg.transactionId) :
        /\ t.amountPaid = 0 /\ t.status = "pending"
        /\ SumPaymentsFor(payments, t.id) > 0
\* C3: with transactions created by handleSave and payments recorded by
\* handleAddPayment only, every stored transaction has 0 <= amountPaid <=
\* totalAmount and the payments referencing it sum to at most totalAmount.
C3_PaidWithinTotal ==
    \A i \in 1..Len(transactions) :
        /\ 0 <= transactions[i].amountPaid
        /\ transactions[i].amountPaid <= transactions[i].totalAmount
        /\ SumPaymentsFor(payments, transactions[i].id) <= transactions[i].totalAmount

\* C4: when deleteCustomer(id) has run to completion, no stored customer has
\* that id, no stored transaction or payment has customerId = id, both
\* per-customer getters return the empty sequence for id, and the customers,
\* transactions and payments of every other id are stored as before, in the
\* same order.
C4_DeleteCascades ==
    \A p \in Procs :
        Returned(p, "deleteCustomer") =>
            LET id == proc[p].arg.id
                pre == proc[p].pre
            IN  /\ \A i \in 1..Len(customers) : customers[i].id # id
                /\ \A i \in 1..Len(transactions) : transactions[i].customerId # id
                /\ \A i \in 1..Len(payments) : payments[i].customerId # id
                /\ GetCustomerTransactions(transactions, id) = <<>>
                /\ GetCustomerPayments(payments, id) = <<>>
                /\ customers = SelectSeq(pre[1], LAMBDA c : c.id # id)
                /\ transactions = SelectSeq(pre[2], LAMBDA t : t.customerId # id)
                /\ payments = SelectSeq(pre[3], LAMBDA q : q.customerId # id)

\* A customer with a transaction has been deleted while another customer
\* and that one's transaction are still stored.
C4_Witness ==
    /\ Returned("a", "deleteCustomer")
    /\ Len(proc["a"].pre[1]) = 2 /\ Len(customers) = 1
    /\ Len(proc["a"].pre[2]) = 1
    /\ \/ transactions = <<>> /\ proc["a"].pre[2][1].customerId = proc["a"].arg.id
       \/ transactions = proc["a"].pre[2]
             /\ transactions[1].customerId = customers[1].id

\* C5: whenever no call is in flight, every stored transaction's customerId
\* is the id of a stored customer, every stored payment's transactionId the
\* id of a stored transaction, and every stored payment's customerId the id
\* of a stored customer.
C5_ReferentialIntegrity ==
    (\A p \in Procs : Settled(p)) =>
        /\ \A i \in 1..Len(transactions) : transactions[i].customerId \in Ids(customers)
        /\ \A i \in 1..Len(payments) :
            /\ payments[i].transactionId \in Ids(transactions)
            /\ payments[i].customerId \in Ids(customers)

\* C7: an addPayment call whose transactionId matched no stored transaction
\* when it began returns the new payment, which is then the head of the
\* payments, followed by the payments as they were; it never reaches the
\* block that writes the transactions, and the transactions are as before.
C7_PaymentForMissingTransaction ==
    \A p \in Procs :
        (proc[p].op = "addPayment" /\ Stored(proc[p].pre[2], proc[p].arg.transactionId) = {}) =>
            /\ proc[p].pc # "addPayment_saveTransactions"
            /\ transactions = proc[p].pre[2]
            /\ proc[p].pc = "done" =>
                /\ Len(proc[p].ret) = 1
                /\ payments = <<proc[p].ret[1]>> \o proc[p].pre[3]
                /\ proc[p].ret[1].transactionId = proc[p].arg.transactionId
                /\ proc[p].ret[1].customerId = proc[p].arg.customerId
                /\ proc[p].ret[1].amount = proc[p].arg.amount
                /\ proc[p].ret[1].id \notin Ids(proc[p].pre[3])

\* A payment naming no stored transaction has been added in front of an
\* earlier payment, next to a stored transaction that kept its balance.
C7_Witness ==
    /\ Returned("a", "addPayment")
    /\ Stored(transactions, proc["a"].arg.transactionId) = {}
    /\ Len(payments) = 2
    /\ Head(payments) = proc["a"].ret[1]
    /\ Len(transactions) = 1 /\ transactions[1].amountPaid = 0

\* C8: the block of updateCustomer that writes leaves the customer's id as
\* it was, leaves every field not named in updates as it was, and sets
\* updatedAt to the time of the call, whatever fields updates carries.
C8_UpdateKeepsId ==
    [][\A p \in Procs :
        (proc[p].pc = "updateCustomer_save" /\ proc'[p].pc = "done") =>
            LET index == CHOOSE i \in 1..Len(customers) : customers[i].id = proc[p].arg.id
                old == customers[index]
                new == customers'[index]
            IN  /\ new.id = old.id
                /\ \A f \in {"name", "mobile", "createdAt"} \ DOMAIN proc[p].arg.updates :
                       new[f] = old[f]
                /\ new.updatedAt = now]_vars

\* C9: an updateCustomer call whose id matched no stored customer when it
\* began returns null at once: it never reaches the block that writes, and
\* the three collections are as before.
C9_UpdateMissingCustomer ==
    \A p \in Procs :
        (proc[p].op = "updateCustomer" /\ Stored(proc[p].pre[1], proc[p].arg.id) = {}) =>
            /\ proc[p].pc = "done"
            /\ proc[p].ret = <<>>
            /\ store = proc[p].pre

\* updateCustomer has returned null for an id that is not stored, next to a
\* stored customer.
C9_Witness ==
    /\ Returned("a", "updateCustomer")
    /\ proc["a"].ret = <<>>
    /\ customers # <<>>
    /\ proc["a"].arg.id \notin Ids(customers)
    /\ "name" \in DOMAIN proc["a"].arg.updates

\* C10: when a deleteCustomer call whose id matched no stored customer when
\* it began has run to completion, the customers, transactions and payments
\* are the same sequences as before the call.
C10_DeleteMissingIsNoOp ==
    \A p \in Procs :
        (Returned(p, "deleteCustomer") /\ Stored(proc[p].pre[1], proc[p].arg.id) = {}) =>
            store = proc[p].pre

\* C11: with payments recorded by handleAddPayment only, every stored
\* payment whose transactionId is the id of a stored transaction has that
\* transaction's customerId.
C11_PaymentCustomerMatches ==
    \A i \in 1..Len(payments) :
        \A t \in Stored(transactions, payments[i].transactionId) :
            payments[i].customerId = t.customerId

\* Two payments are stored for the stored transaction of the second saved
\* customer, which they have paid in full.
C11_Witness ==
    /\ Len(payments) = 2
    /\ Len(transactions) = 1
    /\ transactions[1].customerId = SavedCustomers[2].id
    /\ \A i \in 1..2 : payments[i].transactionId = transactions[1].id
    /\ transactions[1].status = "paid"

\* C12: the transaction an addTransaction call issued by handleSave has
\* stored and returned carries the status handleSave supplied, and that
\* status satisfies the three-way rule for its amountPaid and totalAmount.
C12_CreatedStatusRule ==
    \A p \in Procs :
        Returned(p, "addTransaction") =>
            /\ proc[p].ret[1].status = proc[p].arg.status
            /\ proc[p].ret[1] \in Stored(transactions, proc[p].ret[1].id)
            /\ StatusRule(proc[p].ret[1])

RECURSIVE SumTotals(_)
SumTotals(products) ==
    IF products = <<>> THEN 0
    ELSE Head(products).total + SumTotals(Tail(products))

\* C13: the transaction an addTransaction call issued by handleSave has
\* stored has totalAmount equal to the sum of the totals of its stored
\* products, and each stored product has total = quantity * unitPrice.
C13_TotalIsSumOfProducts ==
    \A p \in Procs :
        (Returned(p, "addTransaction") /\ proc[p].handler = "handleSave") =>
            LET t == proc[p].ret[1]
            IN  /\ t \in Stored(transactions, t.id)
                /\ t.totalAmount = SumTotals(t.products)
                /\ \A i \in 1..Len(t.products) :
                       t.products[i].total
                           = t.products[i].quantity * t.products[i].unitPrice

\* The sum of a field over the elements of a list at the indices in I.
RECURSIVE SumAt(_, _, _)
SumAt(seq, I, field) ==
    IF I = {} THEN 0
    ELSE LET i == CHOOSE i \in I : TRUE
         IN  seq[i][field] + SumAt(seq, I \ {i}, field)

\* C14: getCustomerStats(customerId, transactions) returns, over exactly
\* the transactions of that customer whatever their dates, totalPurchased =
\* the sum of totalAmount, amountPaid = the sum of amountPaid,
\* transactionCount = their number, and amountPending = totalPurchased -
\* amountPaid, negative when more was paid than purchased.
C14_CustomerStatsTotals ==
    ui.fn = "getCustomerStats" =>
        LET own == {i \in 1..Len(transactions) :
                        transactions[i].customerId = ui.args[1]}
        IN  /\ ui.result.totalPurchased = SumAt(transactions, own, "totalAmount")
            /\ ui.result.amountPaid = SumAt(transactions, own, "amountPaid")
            /\ ui.result.transactionCount = Cardinality(own)
            /\ ui.result.amountPending
                   = ui.result.totalPurchased - ui.result.amountPaid

\* The customer has the transactions 500 purchased / 1000 paid and another
\* customer one of 1000 / 200: the stats are 500, 1000, -500, count 1.
C14_Witness ==
    /\ ui.fn = "getCustomerStats"
    /\ Len(transactions) = 2
    /\ transactions[1].customerId = ui.args[1]
    /\ transactions[2].customerId # ui.args[1]
    /\ transactions[1].totalAmount = 500 /\ transactions[1].amountPaid = 1000
    /\ ui.result.totalPurchased = 500 /\ ui.result.amountPaid = 1000
    /\ ui.result.amountPending = -500 /\ ui.result.transactionCount = 1

\* The indices of the transactions dated in a month of a year.
DatedIn(txs, month, year) ==
    {i \in 1..Len(txs) :
        GetMonth(txs[i].date) = month /\ GetFullYear(txs[i].date) = year}

\* C18: getDashboardStats returns thisMonthRevenue = the sum of totalAmount
\* over exactly the transactions dated in the calendar month and year of
\* the clock, and totalCustomers = the number of customers.
C18_ThisMonthRevenue ==
    ui.fn = "getDashboardStats" =>
        /\ ui.result.thisMonthRevenue
               = SumAt(transactions,
                       DatedIn(transactions, GetMonth(now), GetFullYear(now)),
                       "totalAmount")
        /\ ui.result.totalCustomers = Len(customers)

\* One transaction of this month is counted next to one 20 days old and one
\* of the same month a year ago, which are not.
C18_Witness ==
    /\ ui.fn = "getDashboardStats"
    /\ Len(transactions) = 3
    /\ transactions[1].date = TwentyDaysAgo /\ transactions[1].totalAmount = 2
    /\ transactions[2].date = Today /\ transactions[2].totalAmount = 1
    /\ transactions[3].date = AYearAgo /\ transactions[3].totalAmount = 2
    /\ ui.result.thisMonthRevenue = 1
    /\ ui.result.totalCustomers = 2

\* C17: getDashboardStats returns topCustomer = { customer: null, amount: 0 }
\* when no transaction is dated in the month and year of the clock;
\* otherwise customer is not null, it is the customer whose transactions of
\* this month sum to the highest totalAmount, amount is that sum, and among
\* customers of equal highest sum it is the one whose first transaction of
\* this month comes first in the list.
C17_TopCustomer ==
    ui.fn = "getDashboardStats" =>
        LET thisMonth == DatedIn(transactions, GetMonth(now), GetFullYear(now))
            ids == {transactions[i].customerId : i \in thisMonth}
            Of(c) == {i \in thisMonth : transactions[i].customerId = c}
            SumFor(c) == SumAt(transactions, Of(c), "totalAmount")
            First(c) == CHOOSE i \in Of(c) : \A j \in Of(c) : i <= j
            top == ui.result.topCustomer
        IN  IF thisMonth = {}
            THEN top = [customer |-> <<>>, amount |-> 0]
            ELSE /\ top.customer # <<>>
                 /\ top.customer[1].id \in ids
                 /\ top.amount = SumFor(top.customer[1].id)
                 /\ \A d \in ids :
                       /\ SumFor(d) <= top.amount
                       /\ (SumFor(d) = top.amount /\ d # top.customer[1].id)
                              => First(top.customer[1].id) < First(d)

\* The rank values of a ranking are 1..n in output order.
RanksInOrder(rankings) == \A i \in 1..Len(rankings) : rankings[i].rank = i

\* C15 (as stated): the output of getMonthlyRankings is sorted strictly
\* descending by totalAmount, and its rank values are exactly 1..n in output
\* order.
C15_StrictlyDescending ==
    ui.fn = "getMonthlyRankings" =>
        /\ \A i \in 1..(Len(ui.result) - 1) :
               ui.result[i].totalAmount > ui.result[i + 1].totalAmount
        /\ RanksInOrder(ui.result)

\* C15 (amended): the output of getMonthlyRankings is sorted descending by
\* totalAmount, customers of equal totalAmount following one another, and
\* its rank values are exactly 1..n in output order, with no gaps and no
\* repeats, also among customers of equal totalAmount.
C15_Descending ==
    ui.fn = "getMonthlyRankings" =>
        /\ \A i \in 1..(Len(ui.result) - 1) :
               ui.result[i].totalAmount >= ui.result[i + 1].totalAmount
        /\ RanksInOrder(ui.result)

\* Three customers are ranked, the one with the highest total first
\* although it comes last in the transactions, the other two with equal
\* totals at ranks 2 and 3.
C15_Witness ==
    /\ ui.fn = "getMonthlyRankings"
    /\ Len(ui.result) = 3
    /\ ui.result[1].totalAmount = 2
    /\ ui.result[2].totalAmount = 1 /\ ui.result[3].totalAmount = 1
    /\ ui.result[3].rank = 3
    /\ transactions[3].customerId = ui.result[1].customer[1].id

\* C16: getMonthlyRankings lists only customers, each at most once; a
\* customer is listed iff some transaction with its id is dated in the
\* target month and year (those given, or those of the clock when omitted);
\* the entry's totalAmount and transactionCount are the sum of totalAmount
\* over, and the number of, exactly those transactions.
C16_RankingsPerCustomer ==
    ui.fn = "getMonthlyRankings" =>
        LET month == IF ui.args[1] = <<>> THEN GetMonth(now) ELSE ui.args[1][1]
            year == IF ui.args[2] = <<>> THEN GetFullYear(now) ELSE ui.args[2][1]
            dated == DatedIn(transactions, month, year)
            Of(c) == {i \in dated : transactions[i].customerId = c}
            listed == {ui.result[i].customer : i \in 1..Len(ui.result)}
        IN  /\ \A i, j \in 1..Len(ui.result) :
                   ui.result[i].customer = ui.result[j].customer => i = j
            /\ \A e \in listed : e # <<>>
            /\ \A k \in 1..Len(customers) :
                   <<customers[k]>> \in listed <=> Of(customers[k].id) # {}
            /\ \A i \in 1..Len(ui.result) :
                   /\ ui.result[i].customer # <<>>
                   /\ ui.result[i].totalAmount
                          = SumAt(transactions, Of(ui.result[i].customer[1].id),
                                  "totalAmount")
                   /\ ui.result[i].transactionCount
                          = Cardinality(Of(ui.result[i].customer[1].id))

\* The rankings of January 2025 list the one customer with two transactions
\* then, and not the customer with a transaction in January 2026.
C16_Witness ==
    /\ ui.fn = "getMonthlyRankings"
    /\ ui.args = <<<<0>>, <<2025>>>>
    /\ Len(customers) = 3
    /\ Len(transactions) = 3
    /\ transactions[1].date = AYearAgo /\ transactions[3].date = AYearAgo
    /\ transactions[2].date = Today
    /\ transactions[1].customerId = transactions[3].customerId
    /\ transactions[2].customerId # transactions[1].customerId
    /\ Len(ui.result) = 1
    /\ ui.result[1].transactionCount = 2
    /\ ui.result[1].totalAmount = 3

\* The calendar month of an instant, counted from year 0, and the month of
\* the k-th of n chart entries: the current month is the last one.
MonthNumber(date) == date \div 30
EntryMonth(k, n) == MonthNumber(now) - (n - k)
ChartLength == IF ui.args[1] = <<>> THEN 6 ELSE ui.args[1][1]

\* C19: getRevenueChartData(transactions, months) without a date range
\* returns labels and data of length months (6 when omitted); the k-th
\* entry stands for the calendar month months - k before the current one,
\* the year changing where the months wrap; its label is that month's short
\* name and its value the sum of totalAmount over the transactions dated in
\* that month of that year, 0 when there are none, so that a transaction
\* dated in the window is counted in exactly one entry.
C19_ChartPerMonth ==
    (ui.fn = "getRevenueChartData" /\ ui.args[2] = <<>> /\ ui.args[3] = <<>>) =>
        /\ DOMAIN ui.result.labels = 1..ChartLength
        /\ DOMAIN ui.result.data = 1..ChartLength
        /\ \A k \in 1..ChartLength :
            /\ ui.result.labels[k] = MonthNames[(EntryMonth(k, ChartLength) % 12) + 1]
            /\ ui.result.data[k]
                   = SumAt(transactions,
                           {i \in 1..Len(transactions) :
                               MonthNumber(transactions[i].date)
                                   = EntryMonth(k, ChartLength)},
                           "totalAmount")

\* A chart of three months across the year boundary: nothing in November,
\* one transaction in December 2025 and one in January 2026, while the
\* transaction of January 2025 is counted nowhere.
C19_Witness ==
    /\ ui.fn = "getRevenueChartData"
    /\ ui.args = <<<<3>>, <<>>, <<>>>>
    /\ Len(transactions) = 3
    /\ transactions[1].date = AYearAgo
    /\ transactions[2].date = TwentyDaysAgo /\ transactions[2].totalAmount = 2
    /\ transactions[3].date = Today /\ transactions[3].totalAmount = 1
    /\ ui.result.labels = <<"Nov", "Dec", "Jan">>
    /\ ui.result.data = <<0, 2, 1>>

\* C20: in getRevenueChartData, whichever of startDate and endDate are
\* provided, the k-th value is the sum of totalAmount over the transactions
\* dated in the k-th month that are not before a provided startDate and not
\* after a provided endDate.
C20_RangeAndMonth ==
    ui.fn = "getRevenueChartData" =>
        \A k \in 1..ChartLength :
            ui.result.data[k]
                = SumAt(transactions,
                        {i \in 1..Len(transactions) :
                            /\ MonthNumber(transactions[i].date)
                                   = EntryMonth(k, ChartLength)
                            /\ (ui.args[2] # <<>>
                                    => transactions[i].date >= ui.args[2][1])
                            /\ (ui.args[3] # <<>>
                                    => transactions[i].date <= ui.args[3][1])},
                        "totalAmount")
\* The indices of the transactions not before a provided startDate and not
\* after a provided endDate.
WithinRange(txs, startDate, endDate) ==
    {i \in 1..Len(txs) :
        /\ (startDate # <<>> => startDate[1] <= txs[i].date)
        /\ (endDate # <<>> => txs[i].date <= endDate[1])}

\* C21: getPaymentStatusData returns collected = the sum of amountPaid and
\* pending = the sum of totalAmount - amountPaid over exactly the
\* transactions with startDate <= date <= endDate, each bound applied only
\* when provided; collected + pending is the sum of totalAmount over them.
C21_PaymentStatusSums ==
    ui.fn = "getPaymentStatusData" =>
        LET kept == WithinRange(transactions, ui.args[1], ui.args[2])
        IN  /\ ui.result.collected = SumAt(transactions, kept, "amountPaid")
            /\ ui.result.pending
                   = SumAt(transactions, kept, "totalAmount")
                       - SumAt(transactions, kept, "amountPaid")
            /\ ui.result.collected + ui.result.pending
                   = SumAt(transactions, kept, "totalAmount")

\* A range from 15 December to 5 January keeps the transactions dated at
\* its two ends and drops the one of a year ago; more was paid than owed.
C21_Witness ==
    /\ ui.fn = "getPaymentStatusData"
    /\ ui.args = <<<<TwentyDaysAgo>>, <<Today>>>>
    /\ Len(transactions) = 3
    /\ transactions[1].date = TwentyDaysAgo /\ transactions[1].amountPaid = 3
    /\ transactions[2].date = AYearAgo /\ transactions[2].amountPaid = 3
    /\ transactions[3].date = Today /\ transactions[3].amountPaid = 0
    /\ transactions[1].totalAmount = 1 /\ transactions[3].totalAmount = 2
    /\ ui.result = [collected |-> 3, pending |-> 0]
\* C22: getTopProducts returns entries of distinct product names found
\* among the date-filtered transactions, each with quantity and revenue
\* equal to the sums of that product's quantity and total over all those
\* transactions, in non-increasing order of revenue; their number is the
\* smaller of limit (5 when omitted) and the number of distinct names, and
\* no product left out has a higher revenue than one returned.
C22_TopProducts ==
    ui.fn = "getTopProducts" =>
        LET kept == WithinRange(transactions, ui.args[2], ui.args[3])
            sold == AllProducts(SelectSeq(transactions, LAMBDA t :
                        \E i \in kept : transactions[i] = t))
            names == {sold[i].name : i \in 1..Len(sold)}
            Of(n) == {i \in 1..Len(sold) : sold[i].name = n}
            limit == IF ui.args[1] = <<>> THEN 5 ELSE ui.args[1][1]
            result == ui.result
            returned == {result[i].name : i \in 1..Len(result)}
        IN  /\ Len(result) = IF limit < Cardinality(names) THEN limit
                                                          ELSE Cardinality(names)
            /\ \A i, j \in 1..Len(result) : result[i].name = result[j].name => i = j
            /\ \A i \in 1..Len(result) :
                   /\ result[i].name \in names
                   /\ result[i].quantity = SumAt(sold, Of(result[i].name), "quantity")
                   /\ result[i].revenue = SumAt(sold, Of(result[i].name), "total")
            /\ \A i \in 1..(Len(result) - 1) : result[i].revenue >= result[i + 1].revenue
            /\ \A n \in names \ returned : \A i \in 1..Len(result) :
                   SumAt(sold, Of(n), "total") <= result[i].revenue

\* A sold 3 and 2 at price 10 in two transactions and B sold once at 50 in
\* between: with limit 2 the result is {A, 5, 50}, met first, then B of the
\* same revenue.
C22_Witness ==
    /\ ui.fn = "getTopProducts"
    /\ ui.args[1] = <<2>>
    /\ Len(transactions) = 3
    /\ transactions[1].products = <<SoldProduct("A", 3, 10)>>
    /\ transactions[2].products = <<SoldProduct("B", 1, 50)>>
    /\ transactions[3].products = <<SoldProduct("A", 2, 10)>>
    /\ ui.result = << [name |-> "A", quantity |-> 5, revenue |-> 50],
                      [name |-> "B", quantity |-> 1, revenue |-> 50] >>
\* C23: the report's Total Revenue, Total Collected and Pending Collection
\* are collected + pending, collected and pending of getPaymentStatusData
\* without a date range, its Pending Collection is also pendingCollections
\* of getDashboardStats, and each row of the customers CSV carries the
\* totalPurchased, amountPaid and amountPending of getCustomerStats for the
\* row's customer.
C23_ReportsAgree ==
    /\ ui.fn = "generateReportSummary" =>
        LET status == GetPaymentStatusData(transactions, <<>>, <<>>)
        IN  /\ ui.result.totalRevenue = Plus(status.collected, status.pending)
            /\ ui.result.totalCollected = status.collected
            /\ ui.result.pendingAmount = status.pending
            /\ ui.result.pendingAmount
                   = GetDashboardStats(customers, transactions, now).pendingCollections
    /\ ui.fn = "exportCustomersToCSV" =>
        \A i \in 1..Len(customers) :
            LET stats == GetCustomerStats(customers[i].id, transactions)
                row == ui.result.rows[i]
            IN  /\ row.totalPurchased = stats.totalPurchased
                /\ row.amountPaid = stats.amountPaid
                /\ row.amountPending = stats.amountPending
ItemRead ==
    CASE ui.fn = "getCustomers" -> customers
      [] ui.fn = "getTransactions" -> transactions
      [] ui.fn = "getPayments" -> payments
      [] ui.fn = "getProfile" -> profile

\* C25: getCustomers, getTransactions, getPayments and getProfile never
\* throw; when nothing is stored under the key, the stored text is not
\* JSON, or the read fails, the first three return the empty sequence and
\* getProfile the default profile { name: "", businessName: "", currency:
\* "INR" }; and no read changes what is stored.
C25_ReadsDegrade ==
    [][ui' # ui =>
        /\ <<customers, transactions, payments, profile>>'
               = <<customers, transactions, payments, profile>>
        /\ ~ui'.result.thrown
        /\ (ui'.readFails \/ ItemRead'.kind \in {"none", "corrupt"}) =>
              ui'.result.value
                  = IF ui'.fn = "getProfile"
                    THEN [name |-> "", businessName |-> "", currency |-> "INR"]
                    ELSE <<>>]_vars

\* getProfile has read a text that is not JSON while customers are stored.
C25_Witness ==
    /\ ui.fn = "getProfile"
    /\ ~ui.readFails
    /\ profile.kind = "corrupt"
    /\ customers.kind = "json"
    /\ customers.value # <<>>
\* C26: extractCardData never lets an exception out and returns the six
\* fields name, businessName, mobile, email, address and businessType, each
\* a string, whatever the request comes to; when it fails every field is
\* the empty string.
C26_SixStrings ==
    ui.fn = "extractCardData" =>
        /\ ~ui.result.thrown
        /\ DOMAIN ui.result.value = CardFields
        /\ \A f \in CardFields : ui.result.value[f].type = "string"
        /\ TryExtract(ui.response).thrown =>
              \A f \in CardFields : ui.result.value[f] = Str("")

\* C27: AIProcessingScreen, once it has started processing, gets to
\* ConfirmDetails; it calls navigation.replace at most once, with the
\* imageUri it was given and an extractedData of the six fields.
C27_ReachesConfirmDetails ==
    /\ [](/\ Len(ui.replaced) <= 1
          /\ \A i \in 1..Len(ui.replaced) :
                /\ ui.replaced[i].name = "ConfirmDetails"
                /\ ui.replaced[i].params.imageUri = ui.imageUri
                /\ DOMAIN ui.replaced[i].params.extractedData = CardFields)
    /\ (ui.pc = "waiting1000") ~> (ui.screen = "ConfirmDetails" /\ Len(ui.replaced) = 1)

\* The request was rejected and the screen went on to ConfirmDetails with
\* six empty fields.
C27_Witness ==
    /\ ui.screen = "ConfirmDetails"
    /\ Len(ui.replaced) = 1
    /\ ui.imageUri = "file://b.jpg"
    /\ ui.replaced[1].params.extractedData = EmptyCardData
\* The amount paid on the transaction before either call began.
PaidBefore ==
    LET a == proc["a"].pre[2][1].amountPaid
        b == proc["b"].pre[2][1].amountPaid
    IN  IF a <= b THEN a ELSE b

\* C28: once two addPayment calls on the same transaction have both
\* returned, however their blocks were ordered, both payments are in the
\* payments collection, and the transaction's amountPaid is what it was
\* before the calls plus the two amounts, with the status that goes with
\* that sum.
C28_NoPaymentLost ==
    (\A p \in Procs : proc[p].op = "addPayment" /\ proc[p].pc = "done") =>
        LET paid == PaidBefore + proc["a"].arg.amount + proc["b"].arg.amount
        IN  /\ \A p \in Procs : \E i \in 1..Len(payments) : payments[i] = proc[p].ret[1]
            /\ transactions[1].amountPaid = paid
            /\ transactions[1].status = DeriveStatus(paid, transactions[1].totalAmount)
\* C29: with the same customers, transactions and clock, the first entry
\* of getMonthlyRankings for the current month, when there is one, has the
\* customer and the totalAmount of topCustomer of getDashboardStats, and
\* the rankings are empty exactly when topCustomer.customer is null.
C29_TopCustomerAgrees ==
    ui.fn = "getDashboardStats" =>
        LET rankings == GetMonthlyRankings(customers, transactions, <<>>, <<>>, now)
            topCustomer == ui.result.topCustomer
        IN  /\ rankings # <<>> =>
                /\ rankings[1].customer = topCustomer.customer
                /\ rankings[1].totalAmount = topCustomer.amount
            /\ rankings = <<>> <=> topCustomer.customer = <<>>
====
